---- MODULE Spec2Model ----
(***************************************************************************)
(* A model of mobx-repository: the Segment algebra, SegmentWithIds,        *)
(* PaginationRange, the request-state table, IndexableRepository and       *)
(* PaginatedSearchableRepository.                                          *)
(*                                                                         *)
(* Four specifications share the module:                                   *)
(*   SpecSegment  Segment.subtract applied to bounded pairs of segments    *)
(*   SpecRange    a PaginationRange under sequences of add                 *)
(*   SpecIndex    an IndexableRepository under concurrent calls            *)
(*   SpecPaged    a PaginatedSearchableRepository under concurrent calls   *)
(* The variables of the layers a specification does not exercise stay at   *)
(* their initial value.                                                    *)
(***************************************************************************)
EXTENDS Integers, Sequences, FiniteSets, Bags, TLC

VARIABLES
    minuend,        \* SpecSegment, SpecCombine: the segment `this` of subtract, of combine
    subtrahend,     \* SpecSegment, SpecCombine: the argument of subtract, of combine
    difference,     \* SpecSegment, SpecCombine: what the call returned (or NotComputed)
    segments,       \* SpecRange: PaginationRange.segments
    entities,           \* IndexableRepository.entities: id -> entity
    mutableCopyBatches, \* IndexableRepository.mutableCopyBatches: batchId -> (id -> entity)
    stateById,          \* IndexableRepository.stateById: the RequestStates table of the ids
    listenersById,      \* IndexableRepository.listenersById: id -> waiters in registration order
    timeouts,           \* callbacks handed to setTimeout that have not run yet
    fetching,           \* calls of fetchById whose promise is pending
    settled,            \* awaited promises that are settled and whose continuation has not run yet
    calls,              \* how many calls other than evict and reset the users have made
    evictions,          \* how many calls of evict and reset the users have made
    fetched,            \* id -> how often fetchById(id) has been invoked
    errorListeners,     \* IndexableRepository.errorListeners: the listeners registered
    invalidatedBy,      \* id -> the call ("evict", "reset") that cleared the id and that no
                        \* loadById(id) and no add of the id has followed yet, or "none"
    event,              \* what the last step did, as its caller sees it
    stateByQuery,       \* PaginatedSearchableRepository.stateByQuery: the RequestStates table of the queries
    listenersByQuery,   \* PaginatedSearchableRepository.listenersByQuery, in insertion order
    loads,              \* number of a loadByQuery awaiting Promise.all -> its caller and progress
    fetchingByQuery,    \* calls of fetchByQuery whose promise is pending
    started,            \* how many loadByQuery calls have got to Promise.all
    provided,           \* query -> how many entities the provider has for it
    queryEvicted,       \* query -> evict has deleted its state and no loadByQuery has followed
    idle                \* waitForIdle: the counter of the loads in flight and the pending promises

\* No load in flight and no waitForIdle pending.
NothingInFlight == [inFlight |-> 0, listeners |-> 0]

segmentVars == <<minuend, subtrahend, difference>>
rangeVars == <<segments>>
indexVars == <<entities, mutableCopyBatches, stateById, listenersById, timeouts, fetching,
               settled, calls, evictions, fetched, errorListeners, invalidatedBy, event>>
pagedVars == <<stateByQuery, listenersByQuery, loads, fetchingByQuery, started, provided, idle,
               queryEvicted>>
nonIndexVars == <<minuend, subtrahend, difference, segments, stateByQuery, listenersByQuery,
                  loads, fetchingByQuery, started, provided, idle, queryEvicted>>
vars == <<minuend, subtrahend, difference, segments, entities, mutableCopyBatches, stateById,
          listenersById, timeouts, fetching, settled, calls, evictions, fetched, errorListeners,
          invalidatedBy, event, stateByQuery, listenersByQuery, loads, fetchingByQuery, started,
          provided, idle, queryEvicted>>

(***************************************************************************)
(* Bounds                                                                  *)
(***************************************************************************)
\* Largest offset of a segment or window.
MaxOffset == 4
\* Largest count of a segment or window.
MaxCount == 3
\* Largest entity id the callers of an IndexableRepository ask for (ids are 1 .. MaxId).
MaxId == 1
\* How many versions of an entity the provider can serve.
MaxValue == 2
\* How many batches of mutable copies the callers use.
MaxBatch == 2
\* How many calls other than evict and reset the users make in one run.
MaxCalls == 3
\* How many calls of evict and reset the users make in one run.
MaxEvictions == 1
\* Largest query the callers of a PaginatedSearchableRepository ask for (queries are 1 .. MaxQuery).
MaxQuery == 1
\* Largest end (offset + count) of the windows the callers ask for.
MaxWindowEnd == 2
\* Largest number of entities the provider has for a query.
MaxTotal == 2
\* How many calls on queries are in progress at a time.
MaxPending == 2

\* The queries of SearchableRepository are 1 .. MaxSearchQuery.
MaxSearchQuery == 2

\* How many waiters of queries callListenersByQuery is called with.
MaxWaiters == 2

\* How many error listeners the users have (they are 1 .. MaxListeners).
MaxListeners == 1

(***************************************************************************)
(* Sequence helpers                                                        *)
(***************************************************************************)
Range(s) == {s[i] : i \in DOMAIN s}

Min(x, y) == IF x <= y THEN x ELSE y

Max(x, y) == IF x >= y THEN x ELSE y

\* s without the elements at the indices in drop
RECURSIVE RemoveAt(_, _)
RemoveAt(s, drop) ==
    IF s = <<>> THEN <<>>
    ELSE LET n == Len(s)
             front == RemoveAt(SubSeq(s, 1, n - 1), drop)
         IN IF n \in drop THEN front ELSE Append(front, s[n])

\* Array.prototype.slice(from, to) on a sequence, indices counted from 0
Slice(s, from, to) == SubSeq(s, Max(from, 0) + 1, Min(to, Len(s)))

\* new Set([...x, ...y]) as the insertion-ordered sequence of its members
RECURSIVE SetOfSpread(_, _)
SetOfSpread(x, y) ==
    IF y = <<>> THEN x
    ELSE SetOfSpread(IF Head(y) \in Range(x) THEN x ELSE Append(x, Head(y)), Tail(y))

(***************************************************************************)
(* Segment                                                                 *)
(***************************************************************************)
Segment(offset, count) == [offset |-> offset, count |-> count]

End(s) == s.offset + s.count

\* The value of a destructured array element that does not exist.
Undefined == [undefined |-> TRUE]

\* What a call returns: a value, or a thrown exception.
Returned(v) == [threw |-> FALSE, value |-> v]

Threw(e) == [threw |-> TRUE, error |-> e]

\* sortSegments([x, y]): a stable sort by offset
SortPair(x, y) == IF y.offset < x.offset THEN <<y, x>> ELSE <<x, y>>

\* The mutant of overlaps that takes adjacent segments as apart.
overlapsNotAdjacent(this, other) ==
    IF this.offset = other.offset THEN TRUE
    ELSE LET sorted == SortPair(this, other)
         IN End(sorted[1]) > sorted[2].offset

overlaps(this, other) ==
    IF this.offset = other.offset THEN TRUE
    ELSE LET sorted == SortPair(this, other)
         IN End(sorted[1]) >= sorted[2].offset

split(this, at) ==
    IF at <= this.offset \/ at >= End(this) - 1
    THEN <<Segment(this.offset, this.count)>>
    ELSE LET firstSegmentCount == at - this.offset
         IN <<Segment(this.offset, firstSegmentCount),
              Segment(at, this.count - firstSegmentCount)>>

contains(this, other) == other.offset >= this.offset /\ End(other) <= End(this)

containedIn(this, other) == contains(other, this)

equals(this, other) == this.offset = other.offset /\ this.count = other.count

\* Segment.subtract: the parts of `this` outside `sub`; reading `after.offset`
\* of a split that returned one segment throws a TypeError.
subtract(this, sub) ==
    IF sub = Undefined \/ ~overlaps(this, sub) THEN Returned(<<Segment(this.offset, this.count)>>)
    ELSE IF equals(this, sub) \/ containedIn(this, sub) THEN Returned(<<>>)
    ELSE IF this.offset = sub.offset
    THEN Returned(<<Segment(End(sub), End(this) - End(sub))>>)
    ELSE IF End(this) = End(sub)
    THEN Returned(<<Segment(this.offset, this.count - sub.count)>>)
    ELSE IF contains(this, sub)
    THEN LET parts == split(this, sub.offset)
             before == parts[1]
             after == IF Len(parts) >= 2 THEN parts[2] ELSE Undefined
         IN IF after = Undefined THEN Threw("TypeError")
            ELSE Returned(<<before,
                            Segment(after.offset + sub.count, after.count - sub.count)>>)
    ELSE IF this.offset < sub.offset
    THEN Returned(<<Segment(this.offset, this.count - (End(this) - sub.offset))>>)
    ELSE Returned(<<Segment(End(sub), End(this) - End(sub))>>)

(***************************************************************************)
(* SegmentWithIds: a segment whose count is the size of its id set.  The   *)
(* id set is kept as the sequence of its members in insertion order.       *)
(***************************************************************************)
SegmentWithIds(offset, ids) == [offset |-> offset, ids |-> ids, count |-> Len(ids)]

\* hasId of a segment with ids answering for every id once it holds one.
hasIdOfAny(this, id) == Len(this.ids) > 0

hasId(this, id) == id \in Range(this.ids)

\* combine keeping the ids of both segments of one offset side by side, as an
\* array does.
combineInArray(this, other) ==
    IF this.offset = other.offset
    THEN Returned(SegmentWithIds(this.offset, this.ids \o other.ids))
    ELSE LET sorted == SortPair(this, other)
             first == sorted[1]
             second == sorted[2]
             ids == SetOfSpread(first.ids, second.ids)
             overlapAmount == IF End(first) >= End(second) THEN second.count
                              ELSE End(first) - second.offset
             expectedSize == first.count + second.count - overlapAmount
         IN IF Len(ids) # expectedSize THEN Threw("Invalid number of ids after combining")
            ELSE Returned(SegmentWithIds(first.offset, ids))

combine(this, other) ==
    IF this.offset = other.offset
    THEN Returned(SegmentWithIds(this.offset, SetOfSpread(this.ids, other.ids)))
    ELSE LET sorted == SortPair(this, other)
             first == sorted[1]
             second == sorted[2]
             ids == SetOfSpread(first.ids, second.ids)
             overlapAmount == IF End(first) >= End(second) THEN second.count
                              ELSE End(first) - second.offset
             expectedSize == first.count + second.count - overlapAmount
         IN IF Len(ids) # expectedSize THEN Threw("Invalid number of ids after combining")
            ELSE Returned(SegmentWithIds(first.offset, ids))

intersect(this, intersection) ==
    IF intersection.offset > End(this) \/ End(intersection) < this.offset THEN Undefined
    ELSE IF this.offset = intersection.offset
    THEN SegmentWithIds(this.offset, Slice(this.ids, 0, Min(this.count, intersection.count)))
    ELSE IF this.offset > intersection.offset
    THEN SegmentWithIds(this.offset,
                        Slice(this.ids, 0, Min(End(intersection) - this.offset, this.count)))
    ELSE LET count == Min(End(this) - intersection.offset, intersection.count)
             idStartIndex == intersection.offset - this.offset
         IN SegmentWithIds(intersection.offset,
                           Slice(this.ids, idStartIndex, idStartIndex + count))

\* sortSegments: ascending offset, equal offsets in their given order
RECURSIVE sortSegments(_)
sortSegments(segs) ==
    IF segs = <<>> THEN <<>>
    ELSE LET least == CHOOSE i \in DOMAIN segs :
                          \A j \in DOMAIN segs :
                              \/ segs[i].offset < segs[j].offset
                              \/ segs[i].offset = segs[j].offset /\ i <= j
         IN <<segs[least]>> \o sortSegments(RemoveAt(segs, {least}))

\* The first pair the nested loops of tidySegments find: a at index i, b at an
\* earlier index j, a.overlaps(b).
OverlappingPairs(segs) ==
    {p \in (DOMAIN segs) \X (DOMAIN segs) : p[2] < p[1] /\ overlaps(segs[p[1]], segs[p[2]])}

FirstOverlappingPair(segs) ==
    CHOOSE p \in OverlappingPairs(segs) :
        \A r \in OverlappingPairs(segs) : p[1] < r[1] \/ (p[1] = r[1] /\ p[2] <= r[2])

\* The do-while loop of tidySegments: merge the first overlapping pair until
\* no pair overlaps.
RECURSIVE MergeOverlapping(_)
MergeOverlapping(segs) ==
    IF OverlappingPairs(segs) = {} THEN Returned(segs)
    ELSE LET p == FirstOverlappingPair(segs)
             merged == combine(segs[p[1]], segs[p[2]])
         IN IF merged.threw THEN merged
            ELSE MergeOverlapping(Append(RemoveAt(segs, {p[1], p[2]}), merged.value))

tidySegments(segs) ==
    LET merged == MergeOverlapping(segs)
    IN IF merged.threw THEN merged ELSE Returned(sortSegments(merged.value))

(***************************************************************************)
(* PaginationRange                                                         *)
(***************************************************************************)
\* PaginationRange.add: the new value of `segments`, or the exception of combine
\* (the assignment then never happens).
add(segs, segment) == tidySegments(Append(segs, segment))

loadedSegments(segs) == [i \in DOMAIN segs |-> Segment(segs[i].offset, segs[i].count)]

RECURSIVE getIds(_, _)
getIds(segs, pagination) ==
    IF segs = <<>> THEN <<>>
    ELSE LET n == Len(segs)
             front == getIds(SubSeq(segs, 1, n - 1), pagination)
             intersection == intersect(segs[n], pagination)
         IN IF intersection = Undefined THEN front
            ELSE SetOfSpread(front, intersection.ids)

\* One round of the outer loop of getMissingSegments: every missing segment
\* minus `existing`.
RECURSIVE SubtractFromAll(_, _)
SubtractFromAll(missing, existing) ==
    IF missing = <<>> THEN Returned(<<>>)
    ELSE LET head == subtract(Head(missing), existing)
             rest == SubtractFromAll(Tail(missing), existing)
         IN IF head.threw THEN head
            ELSE IF rest.threw THEN rest
            ELSE Returned(head.value \o rest.value)

RECURSIVE MissingAfter(_, _)
MissingAfter(missing, segs) ==
    IF segs = <<>> THEN Returned(missing)
    ELSE LET next == SubtractFromAll(missing, Head(segs))
         IN IF next.threw THEN next ELSE MissingAfter(next.value, Tail(segs))

\* The mutant of getMissingSegments that takes nothing as loaded.
getMissingSegmentsOfNothing(segs, requested) ==
    Returned(<<Segment(requested.offset, requested.count)>>)

getMissingSegments(segs, requested) ==
    MissingAfter(<<Segment(requested.offset, requested.count)>>, segs)

\* isFullyLoaded: may throw what getMissingSegments throws
isFullyLoaded(segs, requested) ==
    LET missing == getMissingSegments(segs, requested)
    IN IF missing.threw THEN missing ELSE Returned(missing.value = <<>>)

(***************************************************************************)
(* Inputs                                                                  *)
(***************************************************************************)
\* Every segment and window within the bounds, the empty ones included.
Segments == {Segment(o, c) : o \in 0 .. MaxOffset, c \in 0 .. MaxCount}

\* The id the provider serves at a position of a query's result list.  With
\* shift 1 the list has lost one entry in front of the position since.
IdAt(position, shift) == position + shift

IdsFrom(offset, count, shift) == [k \in 1 .. count |-> IdAt(offset + k - 1, shift)]

\* What loadIndividualRange adds: the ids a fetch returned, at the offset asked for.
FetchedSegments ==
    {SegmentWithIds(o, IdsFrom(o, c, shift)) :
        o \in 0 .. MaxOffset, c \in 0 .. MaxCount, shift \in {0, 1}}


(***************************************************************************)
(* Maps and bags                                                           *)
(***************************************************************************)
EmptyMap == [k \in {} |-> k]

MapHas(m, k) == k \in DOMAIN m

MapGet(m, k) == IF k \in DOMAIN m THEN m[k] ELSE Undefined

MapSet(m, k, v) == [x \in DOMAIN m \cup {k} |-> IF x = k THEN v ELSE m[x]]

MapDelete(m, k) == [x \in DOMAIN m \ {k} |-> m[x]]

BagAdd(B, e) == B (+) SetToBag({e})

BagRemove(B, e) == B (-) SetToBag({e})

RECURSIVE BagOfSeq(_)
BagOfSeq(s) == IF s = <<>> THEN EmptyBag ELSE BagAdd(BagOfSeq(Tail(s)), Head(s))

\* How often the members of S are in B altogether.
RECURSIVE BagSum(_, _)
BagSum(B, S) ==
    IF S = {} THEN 0
    ELSE LET e == CHOOSE x \in S : TRUE IN B[e] + BagSum(B, S \ {e})

\* The bag of f(e) for the members e of B, each as often as e is in B.
BagMap(B, f(_)) ==
    [y \in {f(e) : e \in BagToSet(B)} |-> BagSum(B, {e \in BagToSet(B) : f(e) = y})]

(***************************************************************************)
(* RequestStates: the table of request infos, keyed by JSON.stringify(id). *)
(* The keys of the model are the ids themselves.                           *)
(***************************************************************************)
IN_PROGRESS == "in progress"

NONE == "none"

ERROR == "error"

DONE == "done"

NOT_FOUND == "not found"

\* `undefined` passed as the error of setStatus
NoError == [message |-> ""]

Error(message) == [message |-> message]

\* RequestStates.get: an unknown key gives a NONE info with a state fresh from
\* the factory, and the table is not changed.
get(requestStates, id, stateFactory) ==
    IF ~MapHas(requestStates, id)
    THEN [id |-> id, status |-> NONE, state |-> stateFactory]
    ELSE requestStates[id]

\* update that changes only the records the table has.
updateOfKnown(requestStates, info) ==
    IF MapHas(requestStates, info.id) THEN MapSet(requestStates, info.id, info)
    ELSE requestStates

update(requestStates, info) == MapSet(requestStates, info.id, info)

getState(requestStates, id, stateFactory) == get(requestStates, id, stateFactory).state

setStatus(requestStates, id, status, error, stateFactory) ==
    LET state == getState(requestStates, id, stateFactory)
    IN IF error # NoError
       THEN update(requestStates, [status |-> ERROR, error |-> error, state |-> state, id |-> id])
       ELSE update(requestStates, [status |-> status, state |-> state, id |-> id])

isStatus(requestStates, id, status, stateFactory) ==
    get(requestStates, id, stateFactory).status \in status

\* RequestStates.delete that deletes nothing.
deleteNothing(requestStates, id) == requestStates

delete(requestStates, id) == MapDelete(requestStates, id)

\* The state factory of stateById: () => undefined
NoState == Undefined

(***************************************************************************)
(* IndexableRepository                                                     *)
(***************************************************************************)
Ids == 1 .. MaxId

Values == 1 .. MaxValue

BatchIds == 1 .. MaxBatch

Entity(id, value) == [id |-> id, value |-> value]

extractId(entity) == entity.id

\* cloneEntity handing the entity itself back.
cloneEntityAsItself(entity) == entity

\* cloneEntity (by default `clone`): another object with the properties of the
\* entity, marked as such; undefined stays undefined.
cloneEntity(entity) ==
    IF "id" \notin DOMAIN entity THEN entity
    ELSE [id |-> entity.id, value |-> entity.value, clone |-> TRUE]

\* An asynchronous call in progress: the method whose continuation is pending,
\* its id and, for the callback of mutableCopyById, the batch it captured and
\* whether reset has dropped that batch from mutableCopyBatches since.
Task(kind, id) == [kind |-> kind, id |-> id, batch |-> 0, orphaned |-> FALSE]

CopyTask(batchId, id) ==
    [kind |-> "mutableCopyById", id |-> id, batch |-> batchId, orphaned |-> FALSE]

Resolved(task) == [task |-> task, outcome |-> "resolved", error |-> NoError]

Rejected(task, error) == [task |-> task, outcome |-> "rejected", error |-> error]

\* A pending fetchById; superseded once evict or reset has cleared the state
\* of its id while it was pending.
Fetch(task) == [task |-> task, superseded |-> FALSE]

NoEvent == [op |-> "none", id |-> 0, outcome |-> "none", result |-> Undefined]

Event(op, id, outcome, result) == [op |-> op, id |-> id, outcome |-> outcome, result |-> result]

\* What a call on a batch of mutable copies did.
CopyEvent(op, batchId, id, outcome, result) ==
    ("batch" :> batchId) @@ Event(op, id, outcome, result)

isLoaded(id) == MapHas(entities, id)

isKnown(id) ==
    isLoaded(id) \/ isStatus(stateById, id, {ERROR, IN_PROGRESS, NOT_FOUND, DONE}, NoState)

ListenersOf(id) == IF MapHas(listenersById, id) THEN listenersById[id] ELSE <<>>

\* The continuations callListenersById(id, error) settles, in registration order.
SettledListeners(id, error) ==
    [i \in DOMAIN ListenersOf(id) |->
        IF error # NoError THEN Rejected(ListenersOf(id)[i], error)
        ELSE Resolved(ListenersOf(id)[i])]

\* Nothing awaits the promise of the load that byId or byQuery defers: when it
\* resolves nothing runs, when it rejects the rejection is unhandled.
HasContinuation(item) == ~(item.task.kind \in {"byId", "byQuery"} /\ item.outcome = "resolved")

Continuations(items) == BagOfSeq(SelectSeq(items, HasContinuation))

\* A callback handed to setTimeout runs in a task of its own, after the promise
\* continuations that are ready have run.
TimersMayRun == settled = EmptyBag

\* The branches of loadById before its first await.
LoadReturns(id, force) == ~force /\ (isLoaded(id) \/ isStatus(stateById, id, {DONE}, NoState))

LoadWaits(id, force) ==
    /\ ~LoadReturns(id, force)
    /\ isStatus(stateById, id, {IN_PROGRESS, ERROR}, NoState)

\* loadById without its first check: it fetches although the entity is cached.
LoadFetchesWhileLoaded(id, force) ==
    ~isStatus(stateById, id, {IN_PROGRESS, ERROR}, NoState)

LoadFetches(id, force) == ~LoadReturns(id, force) /\ ~LoadWaits(id, force)

\* loadById up to its first await, called for `task`; `others` are the settled
\* continuations the step leaves behind.
loadById(task, force, others) ==
    LET id == task.id
    IN /\ invalidatedBy' = [invalidatedBy EXCEPT ![id] = "none"]
       /\ IF LoadFetches(id, force)
          THEN /\ stateById' = setStatus(stateById, id, IN_PROGRESS, NoError, NoState)
               /\ fetching' = BagAdd(fetching, Fetch(task))
               /\ fetched' = [fetched EXCEPT ![id] = @ + 1]
               /\ settled' = others
               /\ UNCHANGED listenersById
          ELSE IF LoadReturns(id, force)
          THEN /\ settled' = others (+) Continuations(<<Resolved(task)>>)
               /\ UNCHANGED <<stateById, listenersById, fetching, fetched>>
          ELSE /\ listenersById' = MapSet(listenersById, id, Append(ListenersOf(id), task))
               /\ settled' = others
               /\ UNCHANGED <<stateById, fetching, fetched>>

\* byId(id): the load is deferred with setTimeout, the cached entity returned.
ById ==
    \E id \in Ids :
        /\ calls < MaxCalls
        /\ calls' = calls + 1
        /\ timeouts' = BagAdd(timeouts, Task("byId", id))
        /\ event' = Event("byId", id, "returned", MapGet(entities, id))
        /\ UNCHANGED <<nonIndexVars, errorListeners, evictions, invalidatedBy>>
        /\ UNCHANGED <<entities, mutableCopyBatches, stateById, listenersById, fetching,
                       settled, fetched>>

\* The callback byId handed to setTimeout: loadById(id).
RunLoadById ==
    \E task \in BagToSet(timeouts) :
        /\ task.kind = "byId"
        /\ TimersMayRun
        /\ timeouts' = BagRemove(timeouts, task)
        /\ loadById(task, FALSE, settled)
        /\ event' = Event("byId", task.id, "loading", Undefined)
        /\ UNCHANGED <<nonIndexVars, errorListeners, evictions>>
        /\ UNCHANGED <<entities, mutableCopyBatches, calls>>

\* byIdAsync(id) up to `await this.loadById(id)`.
ByIdAsync ==
    \E id \in Ids :
        /\ calls < MaxCalls
        /\ calls' = calls + 1
        /\ loadById(Task("byIdAsync", id), FALSE, settled)
        /\ event' = Event("byIdAsync", id, "called", Undefined)
        /\ UNCHANGED <<nonIndexVars, errorListeners, evictions>>
        /\ UNCHANGED <<entities, mutableCopyBatches, timeouts>>

\* waitForId(id), called by a user.
WaitForId ==
    \E id \in Ids :
        /\ calls < MaxCalls
        /\ calls' = calls + 1
        /\ listenersById' = MapSet(listenersById, id, Append(ListenersOf(id), Task("waitForId", id)))
        /\ event' = Event("waitForId", id, "called", Undefined)
        /\ UNCHANGED <<nonIndexVars, errorListeners, evictions, invalidatedBy>>
        /\ UNCHANGED <<entities, mutableCopyBatches, stateById, timeouts, fetching, settled,
                       fetched>>

\* reloadId(id) up to `await this.loadById(id, { force: true })`.
ReloadId ==
    \E id \in Ids :
        /\ calls < MaxCalls
        /\ calls' = calls + 1
        /\ loadById(Task("reloadId", id), TRUE, settled)
        /\ event' = Event("reloadId", id, "called", Undefined)
        /\ UNCHANGED <<nonIndexVars, errorListeners, evictions>>
        /\ UNCHANGED <<entities, mutableCopyBatches, timeouts>>

\* add(entity), called by a user.
AddEntity ==
    \E id \in Ids, value \in Values :
        /\ calls < MaxCalls
        /\ calls' = calls + 1
        /\ entities' = MapSet(entities, extractId(Entity(id, value)), Entity(id, value))
        /\ event' = Event("add", id, "returned", Undefined)
        /\ invalidatedBy' = [invalidatedBy EXCEPT ![id] = "none"]
        /\ UNCHANGED <<nonIndexVars, errorListeners, evictions>>
        /\ UNCHANGED <<mutableCopyBatches, stateById, listenersById, timeouts, fetching,
                       settled, fetched>>

\* What IndexableRepository.evict(id) leaves of the id-keyed state.
EvictedEntities(id) == MapDelete(entities, id)

EvictedListeners(id) == MapDelete(listenersById, id)

EvictedSettled(id) ==
    settled (+) Continuations(SettledListeners(id, Error("Entity evicted while waiting.")))

EvictedStates(id) == delete(stateById, id)

Supersede(id, fetch) ==
    IF fetch.task.id = id THEN [fetch EXCEPT !.superseded = TRUE] ELSE fetch

\* The error listeners the users register.
ErrorListeners == 1 .. MaxListeners

\* errorListeners.forEach(callback => callback(error)), once for each error of
\* `errors`: the errors each registered listener is called with, in order.
ErrorListenerCalls(errors) == [listener \in errorListeners |-> errors]

\* An event of a step that called the error listeners.
Reported(ev, errors) == ("reported" :> ErrorListenerCalls(errors)) @@ ev

\* What addErrorListener and removeErrorListener leave alone.
ListenerCallFrame ==
    /\ calls < MaxCalls
    /\ calls' = calls + 1
    /\ UNCHANGED <<nonIndexVars, evictions, invalidatedBy>>
    /\ UNCHANGED <<entities, mutableCopyBatches, stateById, listenersById, timeouts,
                   fetching, settled, fetched>>

\* addErrorListener(listener)
AddErrorListener ==
    \E listener \in ErrorListeners :
        /\ errorListeners' = errorListeners \cup {listener}
        /\ event' = Event("addErrorListener", listener, "returned", Undefined)
        /\ ListenerCallFrame

\* removeErrorListener(listener)
RemoveErrorListener ==
    \E listener \in ErrorListeners :
        /\ errorListeners' = errorListeners \ {listener}
        /\ event' = Event("removeErrorListener", listener, "returned", Undefined)
        /\ ListenerCallFrame

\* evict(id)
Evict ==
    \E id \in Ids :
        /\ evictions < MaxEvictions
        /\ evictions' = evictions + 1
        /\ entities' = EvictedEntities(id)
        /\ listenersById' = EvictedListeners(id)
        /\ settled' = EvictedSettled(id)
        /\ stateById' = EvictedStates(id)
        /\ fetching' = BagMap(fetching, LAMBDA f : Supersede(id, f))
        /\ event' = Event("evict", id, "returned", Undefined)
        /\ invalidatedBy' = [invalidatedBy EXCEPT ![id] = "evict"]
        /\ UNCHANGED <<nonIndexVars, errorListeners>>
        /\ UNCHANGED <<mutableCopyBatches, timeouts, calls, fetched>>

\* The continuations reset() rejects: every listener of every id.
RECURSIVE ResetSettled(_)
ResetSettled(ids) ==
    IF ids = {} THEN EmptyBag
    ELSE LET id == CHOOSE x \in ids : TRUE
         IN Continuations(SettledListeners(id, Error("Repository was reset while waiting.")))
                (+) ResetSettled(ids \ {id})

\* A callback of mutableCopyById keeps the batch it captured, which reset()
\* drops from mutableCopyBatches.
Orphan(task) ==
    IF task.kind = "mutableCopyById" THEN [task EXCEPT !.orphaned = TRUE] ELSE task

\* reset()
Reset ==
    /\ evictions < MaxEvictions
    /\ evictions' = evictions + 1
    /\ stateById' = EmptyMap
    /\ settled' = BagMap(settled (+) ResetSettled(DOMAIN listenersById),
                         LAMBDA s : [s EXCEPT !.task = Orphan(s.task)])
    /\ listenersById' = EmptyMap
    /\ entities' = EmptyMap
    /\ mutableCopyBatches' = EmptyMap
    /\ timeouts' = BagMap(timeouts, Orphan)
    /\ fetching' = BagMap(fetching,
                          LAMBDA f : [f EXCEPT !.task = Orphan(f.task), !.superseded = TRUE])
    /\ event' = Event("reset", 0, "returned", Undefined)
    /\ invalidatedBy' = [id \in Ids |-> "reset"]
    /\ UNCHANGED <<nonIndexVars, errorListeners>>
    /\ UNCHANGED <<calls, fetched>>

\* What the provider can answer to fetchById(id): the entity in one of its
\* versions, undefined, an entity with another id, or an exception.
FetchByIdResults(id) ==
    {Returned(Entity(id, value)) : value \in Values}
        \cup {Returned(Undefined)}
        \cup {Returned(Entity(other, 1)) : other \in (0 .. MaxId) \ {id}}
        \cup {Threw(Error("fetchById failed"))}

\* loadById accepting whatever entity fetchById resolved to: only an exception
\* of the provider fails the load.
FetchFailureOfProvider(id, result) == IF result.threw THEN result.error ELSE NoError

\* The error loadById catches once fetchById has settled: the exception of the
\* provider, or the one thrown for an entity with another id than requested.
FetchFailure(id, result) ==
    IF result.threw THEN result.error
    ELSE IF result.value # Undefined /\ extractId(result.value) # id
    THEN Error("Fetched entity has different id than requested.")
    ELSE NoError

\* The errors the error listeners are called with while loadById handles the
\* result: the error of a wrong id is reported where it is thrown and where it
\* is caught.
ErrorsReported(result, failure) ==
    IF failure = NoError THEN <<>>
    ELSE IF result.threw THEN <<failure>>
    ELSE <<failure, failure>>

\* The rest of loadById once fetchById has settled.
FetchByIdSettles ==
    \E fetch \in BagToSet(fetching) :
        \E result \in FetchByIdResults(fetch.task.id) :
            LET id == fetch.task.id
                failure == FetchFailure(id, result)
            IN /\ fetching' = BagRemove(fetching, fetch)
               /\ IF failure # NoError
                  THEN /\ stateById' = setStatus(stateById, id, ERROR, failure, NoState)
                       /\ settled' = settled (+) Continuations(
                                        <<Resolved(fetch.task)>> \o SettledListeners(id, failure))
                       /\ listenersById' = MapDelete(listenersById, id)
                       /\ UNCHANGED entities
                  ELSE IF result.value = Undefined
                  THEN /\ stateById' = setStatus(stateById, id, NOT_FOUND, NoError, NoState)
                       /\ settled' = settled (+) Continuations(<<Resolved(fetch.task)>>)
                       /\ UNCHANGED <<entities, listenersById>>
                  ELSE /\ stateById' = setStatus(stateById, id, DONE, NoError, NoState)
                       /\ entities' = MapSet(entities, extractId(result.value), result.value)
                       /\ settled' = settled (+) Continuations(
                                        <<Resolved(fetch.task)>> \o SettledListeners(id, NoError))
                       /\ listenersById' = MapDelete(listenersById, id)
               /\ event' = Reported(Event("fetchById", id,
                                          IF result.threw THEN "rejected" ELSE "resolved",
                                          IF result.threw THEN result.error ELSE result.value),
                                    ErrorsReported(result, failure))
               /\ UNCHANGED <<nonIndexVars, errorListeners, evictions, invalidatedBy>>
               /\ UNCHANGED <<mutableCopyBatches, timeouts, calls, fetched>>

\* The promise of a waitForId call by a user settles.
WaitForIdSettles ==
    \E s \in BagToSet(settled) :
        /\ s.task.kind = "waitForId"
        /\ settled' = BagRemove(settled, s)
        /\ event' = Event("waitForId", s.task.id, s.outcome, s.error)
        /\ UNCHANGED <<nonIndexVars, errorListeners, evictions, invalidatedBy>>
        /\ UNCHANGED <<entities, mutableCopyBatches, stateById, listenersById, timeouts,
                       fetching, calls, fetched>>

\* The loadById byId deferred rejects, and nothing handles the rejection.
LoadByIdRejects ==
    \E s \in BagToSet(settled) :
        /\ s.task.kind = "byId"
        /\ settled' = BagRemove(settled, s)
        /\ event' = Event("byId", s.task.id, "unhandled rejection", s.error)
        /\ UNCHANGED <<nonIndexVars, errorListeners, evictions, invalidatedBy>>
        /\ UNCHANGED <<entities, mutableCopyBatches, stateById, listenersById, timeouts,
                       fetching, calls, fetched>>

\* byIdAsync after its await: `return this.entities.get(id)`, or the rejection
\* of the waitForId its loadById awaited.
ByIdAsyncSettles ==
    \E s \in BagToSet(settled) :
        /\ s.task.kind = "byIdAsync"
        /\ settled' = BagRemove(settled, s)
        /\ event' = IF s.outcome = "resolved"
                    THEN Event("byIdAsync", s.task.id, "resolved", MapGet(entities, s.task.id))
                    ELSE Event("byIdAsync", s.task.id, "rejected", s.error)
        /\ UNCHANGED <<nonIndexVars, errorListeners, evictions, invalidatedBy>>
        /\ UNCHANGED <<entities, mutableCopyBatches, stateById, listenersById, timeouts,
                       fetching, calls, fetched>>

\* reloadId after its first await: `return await this.byIdAsync(id)`, up to the
\* await of loadById in byIdAsync; or its rejection.
ReloadIdContinues ==
    \E s \in BagToSet(settled) :
        /\ s.task.kind = "reloadId"
        /\ IF s.outcome = "resolved"
           THEN /\ loadById(Task("reloadId.byIdAsync", s.task.id), FALSE, BagRemove(settled, s))
                /\ event' = NoEvent
           ELSE /\ settled' = BagRemove(settled, s)
                /\ event' = Event("reloadId", s.task.id, "rejected", s.error)
                /\ UNCHANGED <<stateById, listenersById, fetching, fetched, invalidatedBy>>
        /\ UNCHANGED <<nonIndexVars, errorListeners, evictions>>
        /\ UNCHANGED <<entities, mutableCopyBatches, timeouts, calls>>

\* reloadId after the byIdAsync it awaits.
ReloadIdSettles ==
    \E s \in BagToSet(settled) :
        /\ s.task.kind = "reloadId.byIdAsync"
        /\ settled' = BagRemove(settled, s)
        /\ event' = IF s.outcome = "resolved"
                    THEN Event("reloadId", s.task.id, "resolved", MapGet(entities, s.task.id))
                    ELSE Event("reloadId", s.task.id, "rejected", s.error)
        /\ UNCHANGED <<nonIndexVars, errorListeners, evictions, invalidatedBy>>
        /\ UNCHANGED <<entities, mutableCopyBatches, stateById, listenersById, timeouts,
                       fetching, calls, fetched>>

\* batchById(batchId): the batch, created empty when there is none.
batchById(batchId) ==
    IF ~MapHas(mutableCopyBatches, batchId) THEN EmptyMap ELSE mutableCopyBatches[batchId]

\* mutableCopyById(batchId, id): clones the cached entity at once (through byId,
\* which defers a load), or defers a callback that awaits byIdAsync.
MutableCopyById ==
    \E batchId \in BatchIds, id \in Ids :
        LET batch == batchById(batchId)
        IN /\ calls < MaxCalls
           /\ calls' = calls + 1
           /\ IF MapHas(batch, id)
              THEN /\ mutableCopyBatches' = MapSet(mutableCopyBatches, batchId, batch)
                   /\ UNCHANGED timeouts
              ELSE IF isLoaded(id)
              THEN /\ mutableCopyBatches' =
                          MapSet(mutableCopyBatches, batchId,
                                 MapSet(batch, id, cloneEntity(MapGet(entities, id))))
                   /\ timeouts' = BagAdd(timeouts, Task("byId", id))
              ELSE /\ mutableCopyBatches' = MapSet(mutableCopyBatches, batchId, batch)
                   /\ timeouts' = BagAdd(timeouts, CopyTask(batchId, id))
           /\ event' = CopyEvent("mutableCopyById", batchId, id, "returned",
                                 MapGet(mutableCopyBatches'[batchId], id))
           /\ UNCHANGED <<nonIndexVars, errorListeners, evictions, invalidatedBy>>
           /\ UNCHANGED <<entities, stateById, listenersById, fetching, settled, fetched>>

\* The callback mutableCopyById handed to setTimeout, up to the await of
\* loadById in the byIdAsync it calls.
RunMutableCopy ==
    \E task \in BagToSet(timeouts) :
        /\ task.kind = "mutableCopyById"
        /\ TimersMayRun
        /\ timeouts' = BagRemove(timeouts, task)
        /\ loadById(task, FALSE, settled)
        /\ event' = NoEvent
        /\ UNCHANGED <<nonIndexVars, errorListeners, evictions>>
        /\ UNCHANGED <<entities, mutableCopyBatches, calls>>

\* The callback of mutableCopyById after its await: the clone is stored in the
\* batch it captured; a rejection ends it.
MutableCopyStored ==
    \E s \in BagToSet(settled) :
        /\ s.task.kind = "mutableCopyById"
        /\ settled' = BagRemove(settled, s)
        /\ mutableCopyBatches' =
              IF s.outcome = "resolved" /\ ~s.task.orphaned
              THEN MapSet(mutableCopyBatches, s.task.batch,
                          MapSet(batchById(s.task.batch), s.task.id,
                                 cloneEntity(MapGet(entities, s.task.id))))
              ELSE mutableCopyBatches
        /\ event' = NoEvent
        /\ UNCHANGED <<nonIndexVars, errorListeners, evictions, invalidatedBy>>
        /\ UNCHANGED <<entities, stateById, listenersById, timeouts, fetching, calls, fetched>>

\* setMutableCopy(batchId, entity)
SetMutableCopy ==
    \E batchId \in BatchIds, id \in Ids, value \in Values :
        /\ calls < MaxCalls
        /\ calls' = calls + 1
        /\ mutableCopyBatches' =
              MapSet(mutableCopyBatches, batchId,
                     MapSet(batchById(batchId), extractId(Entity(id, value)), Entity(id, value)))
        /\ event' = CopyEvent("setMutableCopy", batchId, id, "returned", Undefined)
        /\ UNCHANGED <<nonIndexVars, errorListeners, evictions, invalidatedBy>>
        /\ UNCHANGED <<entities, stateById, listenersById, timeouts, fetching, settled, fetched>>

\* discardMutableCopy(batchId, id)
DiscardMutableCopy ==
    \E batchId \in BatchIds, id \in Ids :
        /\ calls < MaxCalls
        /\ calls' = calls + 1
        /\ mutableCopyBatches' =
              MapSet(mutableCopyBatches, batchId, MapDelete(batchById(batchId), id))
        /\ event' = CopyEvent("discardMutableCopy", batchId, id, "returned", Undefined)
        /\ UNCHANGED <<nonIndexVars, errorListeners, evictions, invalidatedBy>>
        /\ UNCHANGED <<entities, stateById, listenersById, timeouts, fetching, settled, fetched>>

InitIndexIdle ==
    /\ entities = EmptyMap
    /\ mutableCopyBatches = EmptyMap
    /\ stateById = EmptyMap
    /\ listenersById = EmptyMap
    /\ timeouts = EmptyBag
    /\ fetching = EmptyBag
    /\ settled = EmptyBag
    /\ calls = 0
    /\ evictions = 0
    /\ fetched = [id \in Ids |-> 0]
    /\ errorListeners = {}
    /\ invalidatedBy = [id \in Ids |-> "none"]
    /\ event = NoEvent

(***************************************************************************)
(* PaginatedSearchableRepository                                           *)
(***************************************************************************)
Queries == 1 .. MaxQuery

\* The paginations the callers pass: the windows of at least one position.
Windows ==
    {w \in [offset : 0 .. MaxWindowEnd - 1, count : 1 .. MaxWindowEnd] :
        w.offset + w.count <= MaxWindowEnd}

\* The ids the provider's entities have: the entity at position p has id p + 1.
QueryIds == 1 .. MaxTotal

defaultCount == 10

\* new StatePaginatedSearchable(): an empty range and no limit (`limit` is a
\* sequence, empty while the field is undefined).
StatePaginatedSearchable == [paginationRange |-> <<>>, limit |-> <<>>]

completePagination(partialPagination) ==
    [count |-> IF "count" \in DOMAIN partialPagination THEN partialPagination.count
               ELSE defaultCount,
     offset |-> IF "offset" \in DOMAIN partialPagination THEN partialPagination.offset ELSE 0]

\* PaginationRange.hasId
PaginationRangeHasId(segs, id) == \E i \in DOMAIN segs : hasId(segs[i], id)

\* An asynchronous call on a query in progress: the method, its arguments and
\* the promise its loadByQuery is awaiting.
QueryTask(kind, query, pagination) ==
    [kind |-> kind, query |-> query, pagination |-> pagination, awaits |-> "loadByQuery"]

QueryEvent(op, query, pagination, outcome, result) ==
    [op |-> op, id |-> 0, outcome |-> outcome, result |-> result, query |-> query,
     pagination |-> pagination]

RangeOf(states, query) == getState(states, query, StatePaginatedSearchable).paginationRange

resolveEntities(query, partialPagination) ==
    LET pagination == completePagination(partialPagination)
        ids == getIds(RangeOf(stateByQuery, query), pagination)
    IN [entities |-> [i \in DOMAIN ids |-> MapGet(entities, ids[i])]]

\* isQueryDoneInRange: may throw what isFullyLoaded throws
isQueryDoneInRange(states, query, pagination) ==
    IF ~isStatus(states, query, {DONE}, StatePaginatedSearchable) THEN Returned(FALSE)
    ELSE isFullyLoaded(RangeOf(states, query), pagination)

wasOutOfBounds(states, query, pagination) ==
    LET limit == getState(states, query, StatePaginatedSearchable).limit
    IN IF limit = <<>> THEN FALSE ELSE limit[1] < pagination.count + pagination.offset

\* The promise of a listener, settled by callListenersByQuery.
SettledListener(listenerSpec, error) ==
    IF error # NoError THEN Rejected(listenerSpec.listener, error)
    ELSE Resolved(listenerSpec.listener)

\* The forEach of callListenersByQuery, `completed` being isFullyLoaded for
\* each listener of the query: the listeners before the first one for which
\* it throws are visited, and deleted and settled unless they stay.
ListenersCalled(listeners, completed, error) ==
    LET throwing == {i \in DOMAIN completed : completed[i].threw}
        called == {i \in DOMAIN completed :
                      /\ \A j \in throwing : i < j
                      /\ error # NoError \/ completed[i].value}
        settledNow == RemoveAt(listeners, DOMAIN listeners \ called)
    IN [listeners |-> RemoveAt(listeners, called),
        settled |-> [i \in DOMAIN settledNow |-> SettledListener(settledNow[i], error)],
        threw |-> throwing # {}]

\* callListenersByQuery: the listeners that stay, the promises settled in
\* insertion order, and whether isFullyLoaded threw.
callListenersByQuery(listeners, states, query, error) ==
    ListenersCalled(listeners,
                    [i \in {j \in DOMAIN listeners : listeners[j].query = query} |->
                        isFullyLoaded(RangeOf(states, query), listeners[i].pagination)],
                    error)

\* The calls of fetchByQuery that loadByQuery number `load` makes.
FetchesOf(query, segmentsToLoad, load) ==
    [i \in DOMAIN segmentsToLoad |->
        [query |-> query, segment |-> segmentsToLoad[i], load |-> load]]

\* loadByQuery up to its first await, called for `task` when the table of the
\* queries is `states`; `others` are the settled continuations the step leaves
\* behind.
loadByQuery(task, others, states) ==
    LET query == task.query
        pagination == completePagination(task.pagination)
        done == isQueryDoneInRange(states, query, pagination)
        marked == setStatus(states, query, IN_PROGRESS, NoError, StatePaginatedSearchable)
        segmentsToLoad == getMissingSegments(RangeOf(marked, query), pagination)
    IN /\ queryEvicted' = [queryEvicted EXCEPT ![query] = FALSE]
       /\ IF done.threw
          THEN /\ settled' = others (+) Continuations(<<Rejected(task, Error(done.error))>>)
               /\ stateByQuery' = states
               /\ UNCHANGED <<listenersByQuery, loads, fetchingByQuery, started>>
          ELSE IF \/ done.value
                  \/ isStatus(states, query, {ERROR}, StatePaginatedSearchable)
                  \/ wasOutOfBounds(states, query, pagination)
          THEN /\ settled' = others (+) Continuations(<<Resolved(task)>>)
               /\ stateByQuery' = states
               /\ UNCHANGED <<listenersByQuery, loads, fetchingByQuery, started>>
          ELSE IF isStatus(states, query, {IN_PROGRESS}, StatePaginatedSearchable)
          THEN /\ listenersByQuery' =
                      Append(listenersByQuery,
                             [query |-> query, pagination |-> pagination,
                              listener |-> [task EXCEPT !.awaits = "waitForQuery"]])
               /\ settled' = others
               /\ stateByQuery' = states
               /\ UNCHANGED <<loads, fetchingByQuery, started>>
          ELSE IF segmentsToLoad.threw
          THEN /\ stateByQuery' = marked
               /\ settled' = others (+) Continuations(<<Rejected(task, Error(segmentsToLoad.error))>>)
               /\ UNCHANGED <<listenersByQuery, loads, fetchingByQuery, started>>
          ELSE /\ stateByQuery' = marked
               /\ started' = started + 1
               /\ loads' = MapSet(loads, started + 1,
                                  [task |-> task, awaiting |-> Len(segmentsToLoad.value),
                                   error |-> NoError])
               /\ fetchingByQuery' =
                      fetchingByQuery (+) BagOfSeq(FetchesOf(query, segmentsToLoad.value, started + 1))
               /\ settled' = others
               /\ UNCHANGED listenersByQuery

\* The calls on queries in progress: deferred, loading, waiting, or settled
\* with their continuation still to run.
PendingQueryCalls ==
    BagCardinality(timeouts) + Cardinality(DOMAIN loads) + Len(listenersByQuery)
        + BagCardinality(settled)

\* What the actions on queries leave alone of the ids' loads.
idLoadVars == <<mutableCopyBatches, stateById, listenersById, fetching, fetched, invalidatedBy>>

\* byQuery(query, pagination): the load is deferred with setTimeout, what is
\* loaded of the window returned.
ByQuery ==
    \E query \in Queries, pagination \in Windows :
        /\ calls < MaxCalls
        /\ PendingQueryCalls < MaxPending
        /\ calls' = calls + 1
        /\ timeouts' = BagAdd(timeouts, QueryTask("byQuery", query, pagination))
        /\ event' = QueryEvent("byQuery", query, pagination, "returned",
                               resolveEntities(query, pagination))
        /\ UNCHANGED <<segmentVars, rangeVars, errorListeners, idLoadVars, pagedVars>>
        /\ UNCHANGED <<entities, settled, evictions>>

\* The callback byQuery handed to setTimeout: loadByQuery(query, pagination).
RunLoadByQuery ==
    \E task \in BagToSet(timeouts) :
        /\ task.kind = "byQuery"
        /\ TimersMayRun
        /\ timeouts' = BagRemove(timeouts, task)
        /\ loadByQuery(task, settled, stateByQuery)
        /\ event' = QueryEvent("byQuery", task.query, task.pagination, "loading", Undefined)
        /\ UNCHANGED <<segmentVars, rangeVars, errorListeners, idLoadVars, provided, idle>>
        /\ UNCHANGED <<entities, calls, evictions>>

\* byQueryAsync(query, pagination) up to `await this.loadByQuery(...)`.
ByQueryAsync ==
    \E query \in Queries, pagination \in Windows :
        /\ calls < MaxCalls
        /\ PendingQueryCalls < MaxPending
        /\ calls' = calls + 1
        /\ loadByQuery(QueryTask("byQueryAsync", query, pagination), settled, stateByQuery)
        /\ event' = QueryEvent("byQueryAsync", query, pagination, "called", Undefined)
        /\ UNCHANGED <<segmentVars, rangeVars, errorListeners, idLoadVars, provided, idle>>
        /\ UNCHANGED <<entities, timeouts, evictions>>

\* waitForQuery(query, pagination), called by a user.
WaitForQuery ==
    \E query \in Queries, pagination \in Windows :
        /\ calls < MaxCalls
        /\ PendingQueryCalls < MaxPending
        /\ calls' = calls + 1
        /\ listenersByQuery' =
              Append(listenersByQuery,
                     [query |-> query, pagination |-> completePagination(pagination),
                      listener |-> QueryTask("waitForQuery", query, pagination)])
        /\ event' = QueryEvent("waitForQuery", query, pagination, "called", Undefined)
        /\ UNCHANGED <<segmentVars, rangeVars, errorListeners, idLoadVars>>
        /\ UNCHANGED <<entities, timeouts, settled, evictions, stateByQuery, loads,
                       fetchingByQuery, started, provided, idle, queryEvicted>>

\* reloadQuery(query, pagination): the state of the query is deleted, then
\* byQueryAsync runs up to its await.
ReloadQuery ==
    \E query \in Queries, pagination \in Windows :
        /\ calls < MaxCalls
        /\ PendingQueryCalls < MaxPending
        /\ calls' = calls + 1
        /\ loadByQuery(QueryTask("reloadQuery", query, pagination), settled,
                       delete(stateByQuery, query))
        /\ event' = QueryEvent("reloadQuery", query, pagination, "called", Undefined)
        /\ UNCHANGED <<segmentVars, rangeVars, errorListeners, idLoadVars, provided, idle>>
        /\ UNCHANGED <<entities, timeouts, evictions>>


\* The entities fetchByQuery resolves with: those the provider has at the
\* positions of the segment.
FetchedCount(query, segment) == Max(0, Min(segment.count, provided[query] - segment.offset))

FetchedIds(query, segment) == IdsFrom(segment.offset, FetchedCount(query, segment), 1)

RECURSIVE AddAll(_, _)
AddAll(map, ids) ==
    IF ids = <<>> THEN map
    ELSE AddAll(MapSet(map, extractId(Entity(Head(ids), 1)), Entity(Head(ids), 1)), Tail(ids))

\* The rest of loadIndividualRange once fetchByQuery has settled, and what
\* Promise.all makes of it.
FetchByQuerySettles ==
    \E fetch \in BagToSet(fetchingByQuery), throws \in BOOLEAN :
        LET query == fetch.query
            segment == fetch.segment
            ids == FetchedIds(query, segment)
            state == getState(stateByQuery, query, StatePaginatedSearchable)
            added == add(state.paginationRange, SegmentWithIds(segment.offset, ids))
            merged == [paginationRange |-> added.value,
                       limit |-> IF Len(ids) < segment.count THEN <<segment.offset + Len(ids)>>
                                 ELSE state.limit]
            failure == IF throws THEN Error("fetchByQuery failed")
                       ELSE IF added.threw THEN Error(added.error)
                       ELSE NoError
        IN /\ fetchingByQuery' = BagRemove(fetchingByQuery, fetch)
           /\ entities' = IF throws THEN entities ELSE AddAll(entities, ids)
           /\ stateByQuery' =
                  IF failure = NoError /\ MapHas(stateByQuery, query)
                  THEN [stateByQuery EXCEPT ![query].state = merged]
                  ELSE stateByQuery
           /\ loads' =
                  IF ~MapHas(loads, fetch.load) THEN loads
                  ELSE IF failure = NoError
                  THEN [loads EXCEPT ![fetch.load].awaiting = @ - 1]
                  ELSE IF loads[fetch.load].error = NoError
                  THEN [loads EXCEPT ![fetch.load].error = failure]
                  ELSE loads
           /\ event' = QueryEvent("fetchByQuery", query, segment,
                                  IF throws THEN "rejected" ELSE "resolved", ids)
           /\ UNCHANGED <<segmentVars, rangeVars, errorListeners, idLoadVars>>
           /\ UNCHANGED <<timeouts, settled, calls, evictions, listenersByQuery, started,
                          provided, idle, queryEvicted>>

\* The catch block of loadByQuery when callListenersByQuery threw after the
\* listeners of `called` were settled: `again` is its own callListenersByQuery,
\* which can throw too.
CaughtListenerError(task, called, failed, again) ==
    /\ stateByQuery' = failed
    /\ listenersByQuery' = again.listeners
    /\ settled' = settled (+) Continuations(
           called.settled \o again.settled
               \o <<IF again.threw THEN Rejected(task, Error("TypeError")) ELSE Resolved(task)>>)

\* The end of loadByQuery number `load`, the status set to DONE in `marked`
\* and the listeners called with the result `called`.
Completed(load, task, marked, called) ==
    /\ loads' = MapDelete(loads, load)
    /\ event' = Reported(QueryEvent("loadByQuery", task.query, task.pagination, "fetched",
                                    Undefined),
                         IF called.threw THEN <<Error("TypeError")>> ELSE <<>>)
    /\ IF ~called.threw
       THEN /\ stateByQuery' = marked
            /\ listenersByQuery' = called.listeners
            /\ settled' = settled (+) Continuations(<<Resolved(task)>> \o called.settled)
       ELSE CaughtListenerError(
                task, called,
                setStatus(marked, task.query, ERROR, Error("TypeError"), StatePaginatedSearchable),
                callListenersByQuery(
                    called.listeners,
                    setStatus(marked, task.query, ERROR, Error("TypeError"),
                              StatePaginatedSearchable),
                    task.query, Error("TypeError")))

\* loadByQuery after Promise.all has resolved: the status becomes DONE and the
\* listeners are called; an exception of callListenersByQuery lands in the
\* catch block, whose own callListenersByQuery can throw again.
LoadByQueryCompletes ==
    \E load \in DOMAIN loads :
        /\ loads[load].awaiting = 0
        /\ loads[load].error = NoError
        /\ Completed(load, loads[load].task,
                     setStatus(stateByQuery, loads[load].task.query, DONE, NoError,
                               StatePaginatedSearchable),
                     callListenersByQuery(
                         listenersByQuery,
                         setStatus(stateByQuery, loads[load].task.query, DONE, NoError,
                                   StatePaginatedSearchable),
                         loads[load].task.query, NoError))
        /\ UNCHANGED <<segmentVars, rangeVars, errorListeners, idLoadVars>>
        /\ UNCHANGED <<entities, timeouts, calls, evictions, fetchingByQuery, started,
                       provided, idle, queryEvicted>>

\* The catch block of loadByQuery number `load`, the status set to ERROR in
\* `failed` and the listeners called with the result `called`.
Failed(load, task, failed, called) ==
    /\ loads' = MapDelete(loads, load)
    /\ stateByQuery' = failed
    /\ listenersByQuery' = called.listeners
    /\ settled' = settled (+) Continuations(
           called.settled
               \o <<IF called.threw THEN Rejected(task, Error("TypeError"))
                    ELSE Resolved(task)>>)

\* loadByQuery after Promise.all has rejected: its catch block.
LoadByQueryFails ==
    \E load \in DOMAIN loads :
        /\ loads[load].error # NoError
        /\ Failed(load, loads[load].task,
                  setStatus(stateByQuery, loads[load].task.query, ERROR, loads[load].error,
                            StatePaginatedSearchable),
                  callListenersByQuery(
                      listenersByQuery,
                      setStatus(stateByQuery, loads[load].task.query, ERROR, loads[load].error,
                                StatePaginatedSearchable),
                      loads[load].task.query, loads[load].error))
        /\ event' = Reported(QueryEvent("loadByQuery", loads[load].task.query,
                                        loads[load].task.pagination, "failed",
                                        loads[load].error),
                             <<loads[load].error>>)
        /\ UNCHANGED <<segmentVars, rangeVars, errorListeners, idLoadVars>>
        /\ UNCHANGED <<entities, timeouts, calls, evictions, fetchingByQuery, started,
                       provided, idle, queryEvicted>>

\* loadByQuery after the waitForQuery it awaited: it starts over, or rejects
\* with the rejection of the listener.
LoadByQueryAgain ==
    \E s \in BagToSet(settled) :
        LET task == [s.task EXCEPT !.awaits = "loadByQuery"]
        IN /\ s.task.kind \in {"byQuery", "byQueryAsync", "reloadQuery"}
           /\ s.task.awaits = "waitForQuery"
           /\ IF s.outcome = "resolved"
              THEN loadByQuery(task, BagRemove(settled, s), stateByQuery)
              ELSE /\ settled' = BagRemove(settled, s) (+) Continuations(<<Rejected(task, s.error)>>)
                   /\ UNCHANGED <<stateByQuery, listenersByQuery, loads, fetchingByQuery, started,
                                  queryEvicted>>
           /\ event' = NoEvent
           /\ UNCHANGED <<segmentVars, rangeVars, errorListeners, idLoadVars, provided, idle>>
           /\ UNCHANGED <<entities, timeouts, calls, evictions>>

\* byQueryAsync after its await (reloadQuery returns what it returns).
ByQueryAsyncSettles ==
    \E s \in BagToSet(settled) :
        /\ s.task.kind \in {"byQueryAsync", "reloadQuery"}
        /\ s.task.awaits = "loadByQuery"
        /\ settled' = BagRemove(settled, s)
        /\ event' = IF s.outcome = "resolved"
                    THEN QueryEvent(s.task.kind, s.task.query, s.task.pagination, "resolved",
                                    resolveEntities(s.task.query, s.task.pagination))
                    ELSE QueryEvent(s.task.kind, s.task.query, s.task.pagination, "rejected",
                                    s.error)
        /\ UNCHANGED <<segmentVars, rangeVars, errorListeners, idLoadVars, pagedVars>>
        /\ UNCHANGED <<entities, timeouts, calls, evictions>>

\* The promise of a waitForQuery call by a user settles.
WaitForQuerySettles ==
    \E s \in BagToSet(settled) :
        /\ s.task.kind = "waitForQuery"
        /\ settled' = BagRemove(settled, s)
        /\ event' = QueryEvent("waitForQuery", s.task.query, s.task.pagination, s.outcome, s.error)
        /\ UNCHANGED <<segmentVars, rangeVars, errorListeners, idLoadVars, pagedVars>>
        /\ UNCHANGED <<entities, timeouts, calls, evictions>>

\* The loadByQuery byQuery deferred rejects, and nothing handles the rejection.
LoadByQueryRejects ==
    \E s \in BagToSet(settled) :
        /\ s.task.kind = "byQuery"
        /\ s.task.awaits = "loadByQuery"
        /\ settled' = BagRemove(settled, s)
        /\ event' = QueryEvent("byQuery", s.task.query, s.task.pagination,
                               "unhandled rejection", s.error)
        /\ UNCHANGED <<segmentVars, rangeVars, errorListeners, idLoadVars, pagedVars>>
        /\ UNCHANGED <<entities, timeouts, calls, evictions>>

\* evict(id) that finds no query to delete.
QueriesWithNone(id) == {}

\* The queries whose state evict(id) deletes.
QueriesWith(id) ==
    {query \in DOMAIN stateByQuery : PaginationRangeHasId(RangeOf(stateByQuery, query), id)}

\* Two results of callListenersByQuery, one after the other.
ThenCalled(called, rest) ==
    [listeners |-> rest.listeners, settled |-> called.settled \o rest.settled,
     threw |-> called.threw \/ rest.threw]

\* The listeners left by the calls of callListenersByQuery in evict, one for
\* each query of `queries`, after `called`.
RECURSIVE EvictListeners(_, _, _)
EvictListeners(queries, called, states) ==
    IF queries = {} THEN called
    ELSE ThenCalled(called,
                    EvictListeners(queries \ {CHOOSE q \in queries : TRUE},
                                   callListenersByQuery(called.listeners, states,
                                                        CHOOSE q \in queries : TRUE,
                                                        Error("Entity was evicted while waiting.")),
                                   states))

\* What evict(id) does to the queries in `queries`, the calls of
\* callListenersByQuery leaving `called`.
QueriesEvicted(id, queries, called) ==
    /\ stateByQuery' = [query \in DOMAIN stateByQuery \ queries |-> stateByQuery[query]]
    /\ listenersByQuery' = called.listeners
    /\ settled' = EvictedSettled(id) (+) Continuations(called.settled)
    /\ queryEvicted' = [query \in Queries |-> query \in queries \/ queryEvicted[query]]

\* evict(id) of PaginatedSearchableRepository: evict(id) of IndexableRepository,
\* then every query whose range has the id loses its state and its listeners.
EvictWithQueries ==
    \E id \in QueryIds :
        /\ evictions < MaxEvictions
        /\ evictions' = evictions + 1
        /\ entities' = EvictedEntities(id)
        /\ listenersById' = EvictedListeners(id)
        /\ stateById' = EvictedStates(id)
        /\ fetching' = BagMap(fetching, LAMBDA f : Supersede(id, f))
        /\ invalidatedBy' = [x \in Ids |-> IF x = id THEN "evict" ELSE invalidatedBy[x]]
        /\ QueriesEvicted(id, QueriesWith(id),
                          EvictListeners(QueriesWith(id),
                                         [listeners |-> listenersByQuery, settled |-> <<>>,
                                          threw |-> FALSE],
                                         [query \in DOMAIN stateByQuery \ QueriesWith(id) |->
                                             stateByQuery[query]]))
        /\ event' = Event("evict", id, "returned", Undefined)
        /\ UNCHANGED <<segmentVars, rangeVars, errorListeners>>
        /\ UNCHANGED <<mutableCopyBatches, timeouts, calls, fetched, loads, fetchingByQuery,
                       started, provided, idle>>

\* reset() of PaginatedSearchableRepository: reset() of IndexableRepository,
\* then every listener of every query is rejected and the states of the
\* queries are dropped.
ResetWithQueries ==
    /\ evictions < MaxEvictions
    /\ evictions' = evictions + 1
    /\ stateById' = EmptyMap
    /\ settled' = BagMap(settled (+) ResetSettled(DOMAIN listenersById),
                         LAMBDA s : [s EXCEPT !.task = Orphan(s.task)])
                    (+) Continuations(
                           [i \in DOMAIN listenersByQuery |->
                               Rejected(listenersByQuery[i].listener,
                                        Error("Repository was reset while waiting."))])
    /\ listenersById' = EmptyMap
    /\ entities' = EmptyMap
    /\ mutableCopyBatches' = EmptyMap
    /\ timeouts' = BagMap(timeouts, Orphan)
    /\ fetching' = BagMap(fetching,
                          LAMBDA f : [f EXCEPT !.task = Orphan(f.task), !.superseded = TRUE])
    /\ invalidatedBy' = [id \in Ids |-> "reset"]
    /\ listenersByQuery' = <<>>
    /\ stateByQuery' = EmptyMap
    /\ event' = Event("reset", 0, "returned", Undefined)
    /\ UNCHANGED <<segmentVars, rangeVars, errorListeners>>
    /\ UNCHANGED <<calls, fetched, loads, fetchingByQuery, started, provided, idle, queryEvicted>>

InitPagedIdle ==
    /\ stateByQuery = EmptyMap
    /\ listenersByQuery = <<>>
    /\ loads = EmptyMap
    /\ fetchingByQuery = EmptyBag
    /\ started = 0
    /\ provided = [query \in Queries |-> 0]
    /\ idle = NothingInFlight
    /\ queryEvicted = [query \in Queries |-> FALSE]

(***************************************************************************)
(* SpecSegment                                                             *)
(***************************************************************************)
NotComputed == [computed |-> FALSE]

InitSegmentIdle ==
    /\ minuend = Segment(0, 0)
    /\ subtrahend = Segment(0, 0)
    /\ difference = NotComputed

InitRangeIdle == segments = <<>>

InitSegment ==
    /\ minuend \in Segments
    /\ subtrahend \in Segments
    /\ difference = NotComputed
    /\ InitRangeIdle
    /\ InitIndexIdle
    /\ InitPagedIdle

Subtract ==
    /\ difference = NotComputed
    /\ difference' = subtract(minuend, subtrahend)
    /\ UNCHANGED <<minuend, subtrahend, rangeVars, indexVars, pagedVars>>

NextSegment == Subtract

SpecSegment == InitSegment /\ [][NextSegment]_vars

(***************************************************************************)
(* SpecRange                                                               *)
(***************************************************************************)
InitRange ==
    /\ InitSegmentIdle
    /\ segments = <<>>
    /\ InitIndexIdle
    /\ InitPagedIdle

\* range.add(segment), whose exception leaves the range as it was
Add ==
    \E segment \in FetchedSegments :
        LET added == add(segments, segment)
        IN /\ segments' = IF added.threw THEN segments ELSE added.value
           /\ UNCHANGED <<segmentVars, indexVars, pagedVars>>

NextRange == Add

SpecRange == InitRange /\ [][NextRange]_vars
(***************************************************************************)
(* SpecIndex                                                               *)
(***************************************************************************)
InitIndex ==
    /\ InitSegmentIdle
    /\ InitRangeIdle
    /\ InitIndexIdle
    /\ InitPagedIdle

NextIndex ==
    \/ ById
    \/ RunLoadById
    \/ ByIdAsync
    \/ WaitForId
    \/ ReloadId
    \/ AddEntity
    \/ Evict
    \/ Reset
    \/ FetchByIdSettles
    \/ WaitForIdSettles
    \/ LoadByIdRejects
    \/ ByIdAsyncSettles
    \/ ReloadIdContinues
    \/ ReloadIdSettles
    \/ MutableCopyById
    \/ RunMutableCopy
    \/ MutableCopyStored
    \/ SetMutableCopy
    \/ DiscardMutableCopy
    \/ AddErrorListener
    \/ RemoveErrorListener

SpecIndex == InitIndex /\ [][NextIndex]_vars


(***************************************************************************)
(* SpecPaged                                                               *)
(***************************************************************************)
InitPaged ==
    /\ InitSegmentIdle
    /\ InitRangeIdle
    /\ InitIndexIdle
    /\ stateByQuery = EmptyMap
    /\ listenersByQuery = <<>>
    /\ loads = EmptyMap
    /\ fetchingByQuery = EmptyBag
    /\ started = 0
    /\ provided \in [Queries -> 0 .. MaxTotal]
    /\ idle = NothingInFlight
    /\ queryEvicted = [query \in Queries |-> FALSE]

NextPaged ==
    \/ ByQuery
    \/ RunLoadByQuery
    \/ ByQueryAsync
    \/ WaitForQuery
    \/ ReloadQuery
    \/ FetchByQuerySettles
    \/ LoadByQueryCompletes
    \/ LoadByQueryFails
    \/ LoadByQueryAgain
    \/ ByQueryAsyncSettles
    \/ WaitForQuerySettles
    \/ LoadByQueryRejects
    \/ EvictWithQueries
    \/ ResetWithQueries
    \/ AddErrorListener
    \/ RemoveErrorListener

SpecPaged == InitPaged /\ [][NextPaged]_vars

(***************************************************************************)
(* SearchableRepository: the repository of queries without pagination.     *)
(* stateByQuery holds the resulting ids of each query, listenersByQuery    *)
(* the waiters of each query in registration order, fetchingByQuery the    *)
(* pending calls of fetchByQuery, and `started` counts those calls.        *)
(***************************************************************************)
SearchQueries == 1 .. MaxSearchQuery

\* What fetchByQuery resolves with: the ids of its entities, in order.
FetchByQueryResults == {<<>>} \cup {<<id>> : id \in QueryIds}

\* The state factory of stateByQuery: () => ({ resultingIds: new Set() })
StateSearchable == [resultingIds |-> <<>>]

SearchTask(kind, query) == [kind |-> kind, query |-> query, awaits |-> "loadByQuery"]

SearchEvent(op, query, outcome, result) ==
    [op |-> op, id |-> 0, outcome |-> outcome, result |-> result, query |-> query]

\* RequestStates.setState
setState(requestStates, id, state, stateFactory) ==
    update(requestStates, [get(requestStates, id, stateFactory) EXCEPT !.state = state])

resolveEntitiesOfQuery(query) ==
    LET ids == getState(stateByQuery, query, StateSearchable).resultingIds
    IN [entities |-> [i \in DOMAIN ids |-> MapGet(entities, ids[i])]]

ListenersOfQuery(query) ==
    IF MapHas(listenersByQuery, query) THEN listenersByQuery[query] ELSE <<>>

\* The promises callListenersByQuery(query, error) of SearchableRepository
\* settles, in registration order.
SettledListenersOfQuery(query, error) ==
    [i \in DOMAIN ListenersOfQuery(query) |->
        IF error # NoError THEN Rejected(ListenersOfQuery(query)[i], error)
        ELSE Resolved(ListenersOfQuery(query)[i])]

\* loadByQuery of SearchableRepository up to its first await, called for
\* `task` when the table of the queries is `states`.
loadByQueryOfSearchable(task, states) ==
    /\ queryEvicted' = [q \in DOMAIN queryEvicted |-> q # task.query /\ queryEvicted[q]]
    /\ IF isStatus(states, task.query, {DONE}, StateSearchable)
       THEN /\ settled' = settled (+) Continuations(<<Resolved(task)>>)
            /\ stateByQuery' = states
            /\ UNCHANGED <<listenersByQuery, fetchingByQuery, started>>
       ELSE IF isStatus(states, task.query, {IN_PROGRESS, ERROR}, StateSearchable)
       THEN /\ listenersByQuery' =
                   MapSet(listenersByQuery, task.query,
                          Append(ListenersOfQuery(task.query),
                                 [task EXCEPT !.awaits = "waitForQuery"]))
            /\ stateByQuery' = states
            /\ UNCHANGED <<settled, fetchingByQuery, started>>
       ELSE /\ stateByQuery' = setStatus(states, task.query, IN_PROGRESS, NoError, StateSearchable)
            /\ fetchingByQuery' = BagAdd(fetchingByQuery, [query |-> task.query, task |-> task])
            /\ started' = started + 1
            /\ UNCHANGED <<settled, listenersByQuery>>

\* The calls on queries in progress in SearchableRepository.
PendingSearchCalls ==
    BagCardinality(timeouts) + BagCardinality(fetchingByQuery) + BagCardinality(settled)
        + Cardinality({<<q, i>> \in SearchQueries \X (1 .. MaxCalls) :
                          i \in DOMAIN ListenersOfQuery(q)})

\* byQuery(query) of SearchableRepository
ByQueryOfSearchable ==
    \E query \in SearchQueries :
        /\ calls < MaxCalls
        /\ PendingSearchCalls < MaxPending
        /\ calls' = calls + 1
        /\ timeouts' = BagAdd(timeouts, SearchTask("byQuery", query))
        /\ event' = SearchEvent("byQuery", query, "returned", resolveEntitiesOfQuery(query))
        /\ UNCHANGED <<segmentVars, rangeVars, errorListeners, idLoadVars, pagedVars>>
        /\ UNCHANGED <<entities, settled, evictions>>

\* The callback byQuery handed to setTimeout: loadByQuery(query).
RunLoadByQueryOfSearchable ==
    \E task \in BagToSet(timeouts) :
        /\ task.kind = "byQuery"
        /\ TimersMayRun
        /\ timeouts' = BagRemove(timeouts, task)
        /\ loadByQueryOfSearchable(task, stateByQuery)
        /\ event' = SearchEvent("byQuery", task.query, "loading", Undefined)
        /\ UNCHANGED <<segmentVars, rangeVars, errorListeners, idLoadVars, loads, provided, idle>>
        /\ UNCHANGED <<entities, calls, evictions>>

\* byQueryAsync(query) up to `await this.loadByQuery(query)`.
ByQueryAsyncOfSearchable ==
    \E query \in SearchQueries :
        /\ calls < MaxCalls
        /\ PendingSearchCalls < MaxPending
        /\ calls' = calls + 1
        /\ loadByQueryOfSearchable(SearchTask("byQueryAsync", query), stateByQuery)
        /\ event' = SearchEvent("byQueryAsync", query, "called", Undefined)
        /\ UNCHANGED <<segmentVars, rangeVars, errorListeners, idLoadVars, loads, provided, idle>>
        /\ UNCHANGED <<entities, timeouts, evictions>>

\* waitForQuery(query), called by a user.
WaitForQueryOfSearchable ==
    \E query \in SearchQueries :
        /\ calls < MaxCalls
        /\ PendingSearchCalls < MaxPending
        /\ calls' = calls + 1
        /\ listenersByQuery' =
              MapSet(listenersByQuery, query,
                     Append(ListenersOfQuery(query), SearchTask("waitForQuery", query)))
        /\ event' = SearchEvent("waitForQuery", query, "called", Undefined)
        /\ UNCHANGED <<segmentVars, rangeVars, errorListeners, idLoadVars>>
        /\ UNCHANGED <<entities, timeouts, settled, evictions, stateByQuery, loads,
                       fetchingByQuery, started, provided, idle, queryEvicted>>

\* reloadQuery(query): the state of the query is deleted, then byQueryAsync
\* runs up to its await.
ReloadQueryOfSearchable ==
    \E query \in SearchQueries :
        /\ calls < MaxCalls
        /\ PendingSearchCalls < MaxPending
        /\ calls' = calls + 1
        /\ loadByQueryOfSearchable(SearchTask("reloadQuery", query), delete(stateByQuery, query))
        /\ event' = SearchEvent("reloadQuery", query, "called", Undefined)
        /\ UNCHANGED <<segmentVars, rangeVars, errorListeners, idLoadVars, loads, provided, idle>>
        /\ UNCHANGED <<entities, timeouts, evictions>>

\* The try block of loadByQuery after fetchByQuery has resolved with the
\* entities of `ids`.
FetchByQueryResolved(fetch, ids) ==
    /\ event' = NoEvent
    /\ entities' = AddAll(entities, ids)
    /\ stateByQuery' = setStatus(setState(stateByQuery, fetch.query, [resultingIds |-> ids],
                                          StateSearchable),
                                 fetch.query, DONE, NoError, StateSearchable)
    /\ settled' = settled (+) Continuations(
           <<Resolved(fetch.task)>> \o SettledListenersOfQuery(fetch.query, NoError))

\* The catch block of loadByQuery after fetchByQuery has rejected.
FetchByQueryRejected(fetch, error) ==
    /\ event' = Reported(SearchEvent("loadByQuery", fetch.query, "failed", error), <<error>>)
    /\ UNCHANGED entities
    /\ stateByQuery' = setStatus(stateByQuery, fetch.query, ERROR, error, StateSearchable)
    /\ settled' = settled (+) Continuations(
           <<Resolved(fetch.task)>> \o SettledListenersOfQuery(fetch.query, error))

\* loadByQuery of SearchableRepository after `await this.fetchByQuery(query)`.
FetchByQueryOfSearchableSettles ==
    \E fetch \in BagToSet(fetchingByQuery) :
        /\ fetchingByQuery' = BagRemove(fetchingByQuery, fetch)
        /\ listenersByQuery' = MapDelete(listenersByQuery, fetch.query)
        /\ \/ \E ids \in FetchByQueryResults : FetchByQueryResolved(fetch, ids)
           \/ FetchByQueryRejected(fetch, Error("fetchByQuery failed"))
        /\ UNCHANGED <<segmentVars, rangeVars, errorListeners, idLoadVars>>
        /\ UNCHANGED <<timeouts, calls, evictions, loads, started, provided, idle, queryEvicted>>

\* loadByQuery after the waitForQuery it awaited: it returns, or rejects with
\* the rejection of the listener.
LoadByQueryOfSearchableWaited ==
    \E s \in BagToSet(settled) :
        /\ s.task.kind \in {"byQuery", "byQueryAsync", "reloadQuery"}
        /\ s.task.awaits = "waitForQuery"
        /\ settled' = BagRemove(settled, s) (+) Continuations(
               <<[s EXCEPT !.task = [s.task EXCEPT !.awaits = "loadByQuery"]]>>)
        /\ event' = NoEvent
        /\ UNCHANGED <<segmentVars, rangeVars, errorListeners, idLoadVars, pagedVars>>
        /\ UNCHANGED <<entities, timeouts, calls, evictions>>

\* byQueryAsync after its await (reloadQuery returns what it returns).
ByQueryAsyncOfSearchableSettles ==
    \E s \in BagToSet(settled) :
        /\ s.task.kind \in {"byQueryAsync", "reloadQuery"}
        /\ s.task.awaits = "loadByQuery"
        /\ settled' = BagRemove(settled, s)
        /\ event' = IF s.outcome = "resolved"
                    THEN SearchEvent(s.task.kind, s.task.query, "resolved",
                                     resolveEntitiesOfQuery(s.task.query))
                    ELSE SearchEvent(s.task.kind, s.task.query, "rejected", s.error)
        /\ UNCHANGED <<segmentVars, rangeVars, errorListeners, idLoadVars, pagedVars>>
        /\ UNCHANGED <<entities, timeouts, calls, evictions>>

\* The promise of a waitForQuery call by a user settles.
WaitForQueryOfSearchableSettles ==
    \E s \in BagToSet(settled) :
        /\ s.task.kind = "waitForQuery"
        /\ settled' = BagRemove(settled, s)
        /\ event' = SearchEvent("waitForQuery", s.task.query, s.outcome, s.error)
        /\ UNCHANGED <<segmentVars, rangeVars, errorListeners, idLoadVars, pagedVars>>
        /\ UNCHANGED <<entities, timeouts, calls, evictions>>

\* The loadByQuery byQuery deferred rejects, and nothing handles the rejection.
LoadByQueryOfSearchableRejects ==
    \E s \in BagToSet(settled) :
        /\ s.task.kind = "byQuery"
        /\ s.task.awaits = "loadByQuery"
        /\ settled' = BagRemove(settled, s)
        /\ event' = SearchEvent("byQuery", s.task.query, "unhandled rejection", s.error)
        /\ UNCHANGED <<segmentVars, rangeVars, errorListeners, idLoadVars, pagedVars>>
        /\ UNCHANGED <<entities, timeouts, calls, evictions>>

\* The queries whose state evict(id) of SearchableRepository deletes.
QueriesResultingIn(id) ==
    {query \in DOMAIN stateByQuery : id \in Range(stateByQuery[query].state.resultingIds)}

\* evict(id) of SearchableRepository: evict(id) of IndexableRepository, then
\* every query whose resulting ids have the id loses its state.
EvictOfSearchable ==
    \E id \in QueryIds :
        /\ evictions < MaxEvictions
        /\ evictions' = evictions + 1
        /\ entities' = EvictedEntities(id)
        /\ listenersById' = EvictedListeners(id)
        /\ stateById' = EvictedStates(id)
        /\ settled' = EvictedSettled(id)
        /\ fetching' = BagMap(fetching, LAMBDA f : Supersede(id, f))
        /\ invalidatedBy' = [x \in Ids |-> IF x = id THEN "evict" ELSE invalidatedBy[x]]
        /\ stateByQuery' = [query \in DOMAIN stateByQuery \ QueriesResultingIn(id) |->
                               stateByQuery[query]]
        /\ queryEvicted' = [query \in DOMAIN queryEvicted |->
                               query \in QueriesResultingIn(id) \/ queryEvicted[query]]
        /\ event' = Event("evict", id, "returned", Undefined)
        /\ UNCHANGED <<segmentVars, rangeVars, errorListeners>>
        /\ UNCHANGED <<mutableCopyBatches, timeouts, calls, fetched, listenersByQuery, loads,
                       fetchingByQuery, started, provided, idle>>

\* Every waiter of every query, rejected by reset().
RECURSIVE ResetSettledOfQueries(_)
ResetSettledOfQueries(queries) ==
    IF queries = {} THEN EmptyBag
    ELSE Continuations(SettledListenersOfQuery(CHOOSE q \in queries : TRUE,
                                               Error("Repository was reset while waiting.")))
            (+) ResetSettledOfQueries(queries \ {CHOOSE q \in queries : TRUE})

\* reset() of SearchableRepository: reset() of IndexableRepository, then every
\* listener of every query is rejected and the states of the queries dropped.
ResetOfSearchable ==
    /\ evictions < MaxEvictions
    /\ evictions' = evictions + 1
    /\ stateById' = EmptyMap
    /\ settled' = BagMap(settled (+) ResetSettled(DOMAIN listenersById),
                         LAMBDA s : [s EXCEPT !.task = Orphan(s.task)])
                    (+) ResetSettledOfQueries(DOMAIN listenersByQuery)
    /\ listenersById' = EmptyMap
    /\ entities' = EmptyMap
    /\ mutableCopyBatches' = EmptyMap
    /\ timeouts' = BagMap(timeouts, Orphan)
    /\ fetching' = BagMap(fetching,
                          LAMBDA f : [f EXCEPT !.task = Orphan(f.task), !.superseded = TRUE])
    /\ invalidatedBy' = [id \in Ids |-> "reset"]
    /\ listenersByQuery' = EmptyMap
    /\ stateByQuery' = EmptyMap
    /\ event' = Event("reset", 0, "returned", Undefined)
    /\ UNCHANGED <<segmentVars, rangeVars, errorListeners>>
    /\ UNCHANGED <<calls, fetched, loads, fetchingByQuery, started, provided, idle, queryEvicted>>

(***************************************************************************)
(* SpecSearch                                                              *)
(***************************************************************************)
InitSearch ==
    /\ InitSegmentIdle
    /\ InitRangeIdle
    /\ InitIndexIdle
    /\ stateByQuery = EmptyMap
    /\ listenersByQuery = EmptyMap
    /\ loads = EmptyMap
    /\ fetchingByQuery = EmptyBag
    /\ started = 0
    /\ provided = [query \in SearchQueries |-> 0]
    /\ idle = NothingInFlight
    /\ queryEvicted = [query \in SearchQueries |-> FALSE]

NextSearch ==
    \/ ByQueryOfSearchable
    \/ RunLoadByQueryOfSearchable
    \/ ByQueryAsyncOfSearchable
    \/ WaitForQueryOfSearchable
    \/ ReloadQueryOfSearchable
    \/ FetchByQueryOfSearchableSettles
    \/ LoadByQueryOfSearchableWaited
    \/ ByQueryAsyncOfSearchableSettles
    \/ WaitForQueryOfSearchableSettles
    \/ LoadByQueryOfSearchableRejects
    \/ EvictOfSearchable
    \/ ResetOfSearchable
    \/ AddErrorListener
    \/ RemoveErrorListener

SpecSearch == InitSearch /\ [][NextSearch]_vars

(***************************************************************************)
(* SpecListeners: callListenersByQuery(query) as loadByQuery calls it after *)
(* Promise.all has resolved, applied to the ranges add builds and to the    *)
(* waiters waitForQuery registers.                                          *)
(***************************************************************************)
\* The windows of the waiters.
WaiterWindows ==
    {w \in [offset : 0 .. MaxWindowEnd, count : 1 .. MaxWindowEnd + 1] :
        w.offset + w.count <= MaxWindowEnd + 1}

\* What waitForQuery(query, pagination) adds to listenersByQuery.
ListenerSpec(query, pagination) ==
    [query |-> query, pagination |-> completePagination(pagination),
     listener |-> QueryTask("waitForQuery", query, pagination)]

\* listenersByQuery after up to MaxWaiters calls of waitForQuery.
WaiterLists ==
    UNION {[1 .. n -> {ListenerSpec(q, w) : q \in Queries, w \in WaiterWindows}] :
              n \in 0 .. MaxWaiters}

\* The table of the queries after setStatus(query, DONE) when `segs` is the
\* loaded range of the query.
DoneWith(query, segs) ==
    setStatus(MapSet(EmptyMap, query,
                     [id |-> query, status |-> IN_PROGRESS,
                      state |-> [paginationRange |-> segs, limit |-> <<>>]]),
              query, DONE, NoError, StatePaginatedSearchable)

\* What callListenersByQuery leaves: the listeners and the promises settled.
ListenersLeft(query, listeners, called) ==
    /\ listenersByQuery' = called.listeners
    /\ settled' = BagOfSeq(called.settled)
    /\ event' = [op |-> "callListenersByQuery", id |-> 0, outcome |-> "returned",
                 result |-> Undefined, query |-> query, listeners |-> listeners,
                 threw |-> called.threw]

\* setStatus(query, DONE); callListenersByQuery(query)
CallListenersByQuery ==
    \E query \in Queries, listeners \in WaiterLists :
        /\ event = NoEvent
        /\ stateByQuery' = DoneWith(query, segments)
        /\ ListenersLeft(query, listeners,
                         callListenersByQuery(listeners, DoneWith(query, segments), query, NoError))
        /\ UNCHANGED <<segmentVars, rangeVars, errorListeners, idLoadVars>>
        /\ UNCHANGED <<entities, timeouts, calls, evictions, loads, fetchingByQuery, started,
                       provided, idle, queryEvicted>>

InitListeners == InitRange

\* The range of the query is loaded before its listeners are called.
AddBeforeListeners == event = NoEvent /\ Add

NextListeners ==
    \/ AddBeforeListeners
    \/ CallListenersByQuery

SpecListeners == InitListeners /\ [][NextListeners]_vars

(***************************************************************************)
(* Claims about Segment and PaginationRange                                *)
(***************************************************************************)
\* The positions a segment covers.
Positions(s) == s.offset .. (End(s) - 1)

PositionsOfAll(segs) == UNION {Positions(segs[i]) : i \in DOMAIN segs}

PairwiseDisjoint(segs) ==
    \A i, j \in DOMAIN segs : i # j => Positions(segs[i]) \cap Positions(segs[j]) = {}

\* C5: for all segments A and B, the empty ones included, A.subtract(B) returns
\* at most two segments that are mutually disjoint, lie inside A, do not meet B
\* and together with the intersection of A and B cover exactly A.
SubtractReconstructs ==
    difference # NotComputed =>
        /\ ~difference.threw
        /\ Len(difference.value) <= 2
        /\ PairwiseDisjoint(difference.value)
        /\ \A i \in DOMAIN difference.value :
               /\ difference.value[i].count >= 0
               /\ Positions(difference.value[i]) \subseteq Positions(minuend)
               /\ Positions(difference.value[i]) \cap Positions(subtrahend) = {}
        /\ PositionsOfAll(difference.value)
               \cup (Positions(minuend) \cap Positions(subtrahend)) = Positions(minuend)
\* C4: for every window W, getMissingSegments(W) returns, in ascending offset
\* order, exactly the maximal sub-ranges of W no stored segment covers: they are
\* disjoint from every stored segment and with the stored segments cover W.
MissingSegmentsAreTheGaps ==
    \A requested \in Segments :
        LET missing == getMissingSegments(segments, requested)
        IN /\ ~missing.threw
           /\ \A i, j \in DOMAIN missing.value :
                  i < j => End(missing.value[i]) < missing.value[j].offset
           /\ PositionsOfAll(missing.value) \cap PositionsOfAll(segments) = {}
           /\ PositionsOfAll(missing.value)
                  = Positions(requested) \ PositionsOfAll(segments)

\* C6: after any sequence of add, the end of a stored segment is strictly
\* smaller than the offset of every stored segment that starts at or after it.
StoredSegmentsAreTidy ==
    \A i, j \in DOMAIN segments :
        (i # j /\ segments[i].offset <= segments[j].offset)
            => End(segments[i]) < segments[j].offset

\* C6 witness: two stored segments, one of them the merge of several adds.
MergedAndSeparateStored ==
    /\ Len(segments) = 2
    /\ segments[1].count > 0
    /\ segments[2].count > MaxCount


(***************************************************************************)
(* Claims about IndexableRepository                                        *)
(***************************************************************************)
PendingFetches(id) == {f \in BagToSet(fetching) : f.task.id = id}

\* The step is loadById(id) called for byId, or a call of byIdAsync(id).
ByIdLoads(id) == event' = Event("byId", id, "loading", Undefined)

ByIdAsyncLoads(id) == event' = Event("byIdAsync", id, "called", Undefined)

Evicts(id) == evictions' = evictions + 1 /\ event' = Event("evict", id, "returned", Undefined)

Resets == evictions' = evictions + 1 /\ event' = Event("reset", 0, "returned", Undefined)

\* C1: while a fetchById(id) that byId or byIdAsync started is pending, and
\* neither evict(id) nor reset() has been called since it started, a further
\* byId(id) or byIdAsync(id) invokes fetchById(id) no second time.
OneFetchWhilePending ==
    [][\A id \in Ids :
          (/\ \E f \in PendingFetches(id) :
                 ~f.superseded /\ f.task.kind \in {"byId", "byIdAsync"}
           /\ ByIdLoads(id) \/ ByIdAsyncLoads(id))
              => fetched'[id] = fetched[id]]_vars

\* C2: in every reachable state at most one fetchById(id) is outstanding for
\* each id.
AtMostOneOutstandingFetch ==
    \A id \in Ids : BagSum(fetching, PendingFetches(id)) <= 1

\* C7: once fetchById(id) has succeeded and the entity is cached, byId(id) and
\* byIdAsync(id) return the cached entity, and their loadById(id) invokes
\* fetchById(id) no more.
CachedEntityIsNotFetchedAgain ==
    [][\A id \in Ids :
          (isLoaded(id) /\ isStatus(stateById, id, {DONE}, NoState))
              => /\ (ByIdLoads(id) \/ ByIdAsyncLoads(id)) => fetched'[id] = fetched[id]
                 /\ (event'.op = "byId" /\ event'.id = id /\ event'.outcome = "returned")
                        => event'.result = entities[id]
                 /\ (event'.op = "byIdAsync" /\ event'.id = id /\ event'.outcome = "resolved")
                        => event'.result = entities[id]]_vars

\* C7 witness: the loadById of a byId has just run for an id that was fetched
\* once, is DONE and is cached.
CachedEntityLoadedAgain ==
    \E id \in Ids :
        /\ event = Event("byId", id, "loading", Undefined)
        /\ isLoaded(id)
        /\ isStatus(stateById, id, {DONE}, NoState)
        /\ fetched[id] = 1

\* C8: evict(id) leaves the id without entity, without request state and
\* without listeners, each of its waiters rejected; and the first byId(id) or
\* byIdAsync(id) after it invokes fetchById(id).
EvictForcesNewFetch ==
    [][\A id \in Ids :
          /\ Evicts(id) =>
                /\ ~MapHas(entities', id)
                /\ ~MapHas(stateById', id)
                /\ ~MapHas(listenersById', id)
                /\ \A i \in DOMAIN ListenersOf(id) :
                      LET rejection ==
                              Rejected(ListenersOf(id)[i], Error("Entity evicted while waiting."))
                      IN CopiesIn(rejection, settled') > CopiesIn(rejection, settled)
          /\ (invalidatedBy[id] = "evict" /\ (ByIdLoads(id) \/ ByIdAsyncLoads(id)))
                => fetched'[id] = fetched[id] + 1]_vars

\* C9: reset() leaves the entities, the states of the ids, the listeners and
\* the batches of mutable copies empty, each waiter of each id rejected; and
\* the first byId(id) after it invokes fetchById(id).
ResetForcesNewFetch ==
    [][/\ Resets =>
             /\ entities' = EmptyMap
             /\ stateById' = EmptyMap
             /\ listenersById' = EmptyMap
             /\ mutableCopyBatches' = EmptyMap
             /\ \A id \in DOMAIN listenersById : \A i \in DOMAIN ListenersOf(id) :
                   CopiesIn(Rejected(Orphan(ListenersOf(id)[i]),
                                     Error("Repository was reset while waiting.")),
                            settled') >= 1
       /\ \A id \in Ids :
             (invalidatedBy[id] = "reset" /\ ByIdLoads(id))
                => fetched'[id] = fetched[id] + 1]_vars


(***************************************************************************)
(* Claims about PaginatedSearchableRepository                              *)
(***************************************************************************)
\* The calls of fetchByQuery the step makes.
NewFetches == fetchingByQuery' (-) fetchingByQuery

StartsLoad == started' = started + 1

ByQueryAsyncCalled(query, pagination) ==
    /\ calls' = calls + 1
    /\ event' = QueryEvent("byQueryAsync", query, pagination, "called", Undefined)

StatusOf(states, query) == get(states, query, StatePaginatedSearchable).status

\* The range loadByQuery subtracts from the window: the loaded range of the
\* query, which reloadQuery has emptied before.
RangeToLoadInto(query) ==
    IF event'.op = "reloadQuery" /\ event'.outcome = "called" THEN <<>>
    ELSE RangeOf(stateByQuery, query)

EvictsWithQueries(id) ==
    evictions' = evictions + 1 /\ event' = Event("evict", id, "returned", Undefined)

\* C10: evict(id) of an id in the loaded range of a query leaves the query
\* without state and without listeners, each of its waiters rejected; and the
\* first byQueryAsync of the query after it calls fetchByQuery.
EvictForcesNewQueryFetch ==
    [][\A query \in Queries :
          /\ \A id \in QueryIds :
                (EvictsWithQueries(id) /\ query \in QueriesWith(id)) =>
                   /\ ~MapHas(stateByQuery', query)
                   /\ \A i \in DOMAIN listenersByQuery' : listenersByQuery'[i].query # query
                   /\ \A i \in DOMAIN listenersByQuery :
                         listenersByQuery[i].query = query =>
                            LET rejection == Rejected(listenersByQuery[i].listener,
                                                      Error("Entity was evicted while waiting."))
                            IN CopiesIn(rejection, settled') > CopiesIn(rejection, settled)
          /\ \A pagination \in Windows :
                (queryEvicted[query] /\ ByQueryAsyncCalled(query, pagination)) => StartsLoad]_vars


\* The limit persisted for the query, as a sequence of at most one number.
LimitOf(states, query) == getState(states, query, StatePaginatedSearchable).limit

\* The step is fetchByQuery(query, segment) resolving with fewer entities than
\* the segment has positions.
ResolvedShort(query, segment) ==
    /\ event'.op = "fetchByQuery"
    /\ event'.outcome = "resolved"
    /\ event'.query = query
    /\ event'.pagination = segment
    /\ Len(event'.result) < segment.count

BeyondLimit(states, query, pagination) ==
    /\ LimitOf(states, query) # <<>>
    /\ pagination.offset + pagination.count > LimitOf(states, query)[1]

\* C12: when fetchByQuery for a segment resolves with k entities, k less than
\* the count of the segment, the limit of the query is offset + k afterwards;
\* wasOutOfBounds is true exactly for the windows that end beyond the limit;
\* and no loadByQuery calls fetchByQuery for such a window.
ShortFetchSetsLimit ==
    [][/\ \A query \in Queries, segment \in Segments :
             ResolvedShort(query, segment) =>
                LimitOf(stateByQuery', query) = <<segment.offset + Len(event'.result)>>
       /\ \A query \in Queries, pagination \in Windows :
             wasOutOfBounds(stateByQuery, query, pagination)
                <=> BeyondLimit(stateByQuery, query, pagination)
       /\ StartsLoad =>
             ~BeyondLimit(stateByQuery', loads'[started'].task.query,
                          completePagination(loads'[started'].task.pagination))]_vars

\* The waitForQuery calls of users among the listeners of the query.
WaitersOf(listeners, query) ==
    {listeners[i] : i \in {j \in DOMAIN listeners :
                              /\ listeners[j].query = query
                              /\ listeners[j].listener.kind = "waitForQuery"}}

Registered(listeners, listenerSpec) ==
    Cardinality({i \in DOMAIN listeners : listeners[i] = listenerSpec})

Covers(states, query, pagination) ==
    Positions(pagination) \subseteq PositionsOfAll(RangeOf(states, query))

\* C13: when callListenersByQuery(query) runs at the end of a load whose
\* fetches all resolved, each waitForQuery waiter of the query is resolved and
\* removed if the loaded range of the query covers its window, and stays
\* registered and pending if not.
WaiterResolvedIffCovered ==
    [][\A query \in Queries :
          (event'.op = "callListenersByQuery" /\ event'.query = query) =>
             \A waiter \in WaitersOf(event'.listeners, query) :
                IF Covers(stateByQuery', query, waiter.pagination)
                THEN /\ Registered(listenersByQuery', waiter) = 0
                     /\ CopiesIn(Resolved(waiter.listener), settled')
                           = Registered(event'.listeners, waiter)
                ELSE /\ Registered(listenersByQuery', waiter)
                           = Registered(event'.listeners, waiter)
                     /\ \A s \in BagToSet(settled') : s.task # waiter.listener]_vars

\* The step is the catch block of a loadByQuery of the query one of whose
\* fetches threw.
LoadFailed(query) ==
    event'.op = "loadByQuery" /\ event'.outcome = "failed" /\ event'.query = query

\* C14: when a fetch of a load of a query has thrown, the status of the query
\* becomes ERROR, every registered error listener is called once with the
\* error, and every waitForQuery waiter of the query is removed and rejected
\* with the error, whatever its window.
FailedLoadRejectsEveryWaiter ==
    [][\A query \in Queries :
          LoadFailed(query) =>
             /\ StatusOf(stateByQuery', query) = ERROR
             /\ DOMAIN event'.reported = errorListeners
             /\ \A listener \in errorListeners : event'.reported[listener] = <<event'.result>>
             /\ \A waiter \in WaitersOf(listenersByQuery, query) :
                   /\ Registered(listenersByQuery', waiter) = 0
                   /\ CopiesIn(Rejected(waiter.listener, event'.result), settled')
                         = CopiesIn(Rejected(waiter.listener, event'.result), settled)
                              + Registered(listenersByQuery, waiter)]_vars

(***************************************************************************)
(* Claims about SearchableRepository                                       *)
(***************************************************************************)
EvictsOfSearchable(id) ==
    evictions' = evictions + 1 /\ event' = Event("evict", id, "returned", Undefined)

\* The step is the loadByQuery of a byQuery(query) or a byQueryAsync(query).
LoadsQueryOfSearchable(query) ==
    \/ event' = SearchEvent("byQuery", query, "loading", Undefined)
    \/ event' = SearchEvent("byQueryAsync", query, "called", Undefined)

ResultingIds(states, query) == Range(getState(states, query, StateSearchable).resultingIds)

\* C11: evict(id) deletes the state of the queries whose resulting ids have
\* the id and leaves the state of every other query as it was; the first
\* byQuery or byQueryAsync of a query after an evict deleted its state calls
\* fetchByQuery, and one of a query that is DONE calls none.
EvictForcesNewFetchOfQuery ==
    [][\A query \in SearchQueries :
          /\ \A id \in QueryIds :
                EvictsOfSearchable(id) =>
                   IF id \in ResultingIds(stateByQuery, query)
                   THEN ~MapHas(stateByQuery', query)
                   ELSE MapGet(stateByQuery', query) = MapGet(stateByQuery, query)
          /\ (queryEvicted[query] /\ LoadsQueryOfSearchable(query)) => started' = started + 1
          /\ (/\ isStatus(stateByQuery, query, {DONE}, StateSearchable)
              /\ LoadsQueryOfSearchable(query)) => started' = started]_vars


(***************************************************************************)
(* Claims about the outcomes of fetchById                                  *)
(***************************************************************************)
WrongId == Error("Fetched entity has different id than requested.")

\* The step is the rest of a loadById(id) whose fetchById(id) resolved to an
\* entity with another id.
WrongIdFetched(id) ==
    /\ event'.op = "fetchById"
    /\ event'.id = id
    /\ event'.outcome = "resolved"
    /\ event'.result # Undefined
    /\ extractId(event'.result) # id

\* C15: when fetchById(id) resolves to an entity whose id differs from id, no
\* entity is stored, the status of the id becomes ERROR, and each waiter
\* registered for the id is removed and rejected.
WrongIdIsAnError ==
    [][\A id \in Ids :
          WrongIdFetched(id) =>
             /\ entities' = entities
             /\ isStatus(stateById', id, {ERROR}, NoState)
             /\ ~MapHas(listenersById', id)
             /\ \A i \in DOMAIN ListenersOf(id) :
                   LET rejection == Rejected(ListenersOf(id)[i], WrongId)
                   IN CopiesIn(rejection, settled') > CopiesIn(rejection, settled)]_vars

\* C15 witness: fetchById(id) has resolved to an entity with another id while
\* a waitForId(id) was pending; the id is in ERROR and the waiter rejected.
WrongIdRejectedWaiter ==
    \E id \in Ids :
        /\ event.op = "fetchById"
        /\ event.id = id
        /\ event.outcome = "resolved"
        /\ event.result # Undefined
        /\ extractId(event.result) # id
        /\ isStatus(stateById, id, {ERROR}, NoState)
        /\ ~isLoaded(extractId(event.result))
        /\ CopiesIn(Rejected(Task("waitForId", id), WrongId), settled) >= 1

\* The step is the rest of a loadById(id) whose fetchById(id) resolved to
\* undefined.
NothingFetched(id) ==
    /\ event'.op = "fetchById"
    /\ event'.id = id
    /\ event'.outcome = "resolved"
    /\ event'.result = Undefined

\* C16: when fetchById(id) resolves to undefined the status of the id becomes
\* NOT_FOUND, and while the status is NOT_FOUND the loadById(id) of byId and
\* byIdAsync invokes fetchById(id) no more.
NotFoundIsTerminal ==
    [][\A id \in Ids :
          /\ NothingFetched(id) => isStatus(stateById', id, {NOT_FOUND}, NoState)
          /\ (/\ isStatus(stateById, id, {NOT_FOUND}, NoState)
              /\ ByIdLoads(id) \/ ByIdAsyncLoads(id))
                 => fetched'[id] = fetched[id]]_vars

ReloadsId(id) == event' = Event("reloadId", id, "called", Undefined)

\* C17: while the status of an id is ERROR the loadById(id) of byId and
\* byIdAsync invokes fetchById(id) no more, and the status stays ERROR through
\* every step that is no evict(id), reset() or reloadId(id).
ErrorStaysUntilCleared ==
    [][\A id \in Ids :
          isStatus(stateById, id, {ERROR}, NoState) =>
             /\ (ByIdLoads(id) \/ ByIdAsyncLoads(id)) => fetched'[id] = fetched[id]
             /\ ~(Evicts(id) \/ Resets \/ ReloadsId(id))
                   => isStatus(stateById', id, {ERROR}, NoState)]_vars

\* C18: a reloadId(id) called while no fetchById(id) is pending invokes
\* fetchById(id), whatever the status of the id.
ReloadIdAlwaysFetches ==
    [][\A id \in Ids :
          (PendingFetches(id) = {} /\ ReloadsId(id)) => fetched'[id] = fetched[id] + 1]_vars

\* C19: reloadId(id) leaves the id without cached entity, so that isLoaded(id)
\* is false and byId(id) returns undefined while the new fetch is pending, and
\* rejects each waiter registered for the id.
ReloadIdEvictsFirst ==
    [][\A id \in Ids :
          ReloadsId(id) =>
             /\ ~MapHas(entities', id)
             /\ \A i \in DOMAIN ListenersOf(id) :
                   LET rejection ==
                           Rejected(ListenersOf(id)[i], Error("Entity evicted while waiting."))
                   IN CopiesIn(rejection, settled') > CopiesIn(rejection, settled)]_vars


(***************************************************************************)
(* A repository of queries of either class: a PaginatedSearchableRepository *)
(* (the queries are Queries) or a SearchableRepository (the queries are    *)
(* SearchQueries).                                                         *)
(***************************************************************************)
Paginated == DOMAIN provided = Queries

InitQueries == InitPaged \/ InitSearch

NextQueries ==
    \/ Paginated /\ NextPaged
    \/ ~Paginated /\ NextSearch

SpecQueries == InitQueries /\ [][NextQueries]_vars

\* The state and status a query has once a loadByQuery has started for it
\* with no state of the query in the table.
Reloading(query, stateFactory) ==
    MapGet(setStatus(EmptyMap, query, IN_PROGRESS, NoError, stateFactory), query)

ReloadsQuery(query) ==
    /\ event'.op = "reloadQuery"
    /\ event'.outcome = "called"
    /\ event'.query = query

\* C20: in both repositories reloadQuery(query) replaces the state of the
\* query, whatever its status, by a fresh one that is IN_PROGRESS and calls
\* fetchByQuery for the query: the SearchableRepository once, the
\* PaginatedSearchableRepository once for the whole window.
ReloadQueryAlwaysFetches ==
    [][/\ \A query \in Queries :
             (Paginated /\ ReloadsQuery(query)) =>
                /\ MapGet(stateByQuery', query) = Reloading(query, StatePaginatedSearchable)
                /\ started' = started + 1
                /\ NewFetches =
                      LET pagination == completePagination(event'.pagination)
                      IN BagOfSeq(FetchesOf(query,
                                            <<Segment(pagination.offset, pagination.count)>>,
                                            started + 1))
       /\ \A query \in SearchQueries :
             (~Paginated /\ ReloadsQuery(query)) =>
                /\ MapGet(stateByQuery', query) = Reloading(query, StateSearchable)
                /\ started' = started + 1
                /\ NewFetches =
                      SetToBag({[query |-> query, task |-> SearchTask("reloadQuery", query)]})]_vars

\* C20 witness: reloadQuery has been called for a query of a
\* PaginatedSearchableRepository while a load of the query was in progress;
\* the fetch of that load and the fetch of the reload are both pending.
ReloadedWhileInProgress ==
    \E query \in Queries :
        /\ Paginated
        /\ event.op = "reloadQuery"
        /\ event.outcome = "called"
        /\ event.query = query
        /\ started = 2
        /\ \E first, second \in BagToSet(fetchingByQuery) :
              /\ first.query = query /\ first.load = 1
              /\ second.query = query /\ second.load = 2


(***************************************************************************)
(* Claims about callers and waiters of IndexableRepository                 *)
(***************************************************************************)
\* The step is the rest of a loadById(id) whose fetchById(id) threw.
FetchThrew(id) ==
    /\ event'.op = "fetchById"
    /\ event'.id = id
    /\ event'.outcome = "rejected"

\* The pending fetchById calls of the id of which the step settles one.
SettlingFetches(id) ==
    {f \in PendingFetches(id) : CopiesIn(f, fetching') < CopiesIn(f, fetching)}

\* C21: when fetchById(id) throws, the byIdAsync(id) that started it, each
\* byIdAsync(id) waiting for it and each waitForId(id) waiter is rejected with
\* the error thrown.
FailedFetchRejectsEveryCaller ==
    [][\A id \in Ids :
          FetchThrew(id) =>
             /\ \A f \in SettlingFetches(id) :
                   f.task.kind = "byIdAsync" =>
                      CopiesIn(Rejected(f.task, event'.result), settled')
                         > CopiesIn(Rejected(f.task, event'.result), settled)
             /\ \A i \in DOMAIN ListenersOf(id) :
                   LET rejection == Rejected(ListenersOf(id)[i], event'.result)
                   IN CopiesIn(rejection, settled') > CopiesIn(rejection, settled)]_vars

\* IndexableRepository with every fetchById settling and every continuation
\* of a settled promise running; no call of a user is ever forced.
SpecIndexFair ==
    /\ SpecIndex
    /\ WF_vars(FetchByIdSettles)
    /\ WF_vars(WaitForIdSettles)
    /\ WF_vars(LoadByIdRejects)
    /\ WF_vars(ByIdAsyncSettles)
    /\ WF_vars(ReloadIdContinues)
    /\ WF_vars(ReloadIdSettles)

\* A byIdAsync(id) is waiting in loadById for a listener of the id to be called.
WaitingByIdAsync(id) ==
    \E i \in DOMAIN ListenersOf(id) : ListenersOf(id)[i].kind = "byIdAsync"

\* C22: with every fetchById settling, a byIdAsync(id) that waits because it
\* found the id IN_PROGRESS or in ERROR is settled eventually.
EveryWaitingByIdAsyncSettles ==
    \A id \in Ids : WaitingByIdAsync(id) ~> ~WaitingByIdAsync(id)


(***************************************************************************)
(* Claims about callers and waiters of PaginatedSearchableRepository       *)
(***************************************************************************)
\* Nothing is left to run by itself: no timer, no pending fetchByQuery, no
\* loadByQuery awaiting its fetches, no continuation of a settled promise.
QueriesIdle ==
    /\ timeouts = EmptyBag
    /\ fetchingByQuery = EmptyBag
    /\ loads = EmptyMap
    /\ settled = EmptyBag

\* A byQueryAsync of the query is waiting in loadByQuery for waitForQuery.
WaitingByQueryAsync(query) ==
    \E i \in DOMAIN listenersByQuery :
        /\ listenersByQuery[i].query = query
        /\ listenersByQuery[i].listener.kind = "byQueryAsync"

\* C23: every byQueryAsync that waits because it found a load of its query in
\* progress is settled by the time nothing is left to run: once every timer
\* has fired, every fetchByQuery has settled and every continuation has run,
\* no byQueryAsync is still waiting.
NoByQueryAsyncWaitsWhenIdle ==
    QueriesIdle => \A query \in Queries : ~WaitingByQueryAsync(query)

\* The step is the end of a loadByQuery of the query whose fetches all
\* resolved.
LoadCompleted(query) ==
    event'.op = "loadByQuery" /\ event'.outcome = "fetched" /\ event'.query = query

\* The query is known to end inside the window, and the positions of the
\* window below the limit are loaded.
ExhaustedInside(states, query, pagination) ==
    /\ BeyondLimit(states, query, pagination)
    /\ \A position \in Positions(pagination) :
          position < LimitOf(states, query)[1]
             => position \in PositionsOfAll(RangeOf(states, query))

\* C24: at the end of a load that shows the query to end inside the window of
\* a waitForQuery waiter, with the positions of the window below the limit
\* loaded, the waiter is resolved and removed.
ExhaustedQueryResolvesWaiter ==
    [][\A query \in Queries :
          LoadCompleted(query) =>
             \A waiter \in WaitersOf(listenersByQuery, query) :
                ExhaustedInside(stateByQuery', query, waiter.pagination)
                   => /\ Registered(listenersByQuery', waiter) = 0
                      /\ CopiesIn(Resolved(waiter.listener), settled')
                            > CopiesIn(Resolved(waiter.listener), settled)]_vars


(***************************************************************************)
(* Claims about both repositories of queries                               *)
(***************************************************************************)
\* The loads of the query in flight: in a PaginatedSearchableRepository the
\* loadByQuery calls awaiting their Promise.all, in a SearchableRepository the
\* pending fetchByQuery calls.
LoadsInFlight(query) ==
    IF Paginated
    THEN Cardinality({load \in DOMAIN loads : loads[load].task.query = query})
    ELSE BagSum(fetchingByQuery, {f \in BagToSet(fetchingByQuery) : f.query = query})

\* C25: in every reachable state of either repository at most one load of
\* each query is in flight.
AtMostOneLoadPerQuery ==
    \A query \in DOMAIN provided : LoadsInFlight(query) <= 1


(***************************************************************************)
(* RequestStates on its own: a table with the keys SearchQueries, held in  *)
(* stateByQuery, under every call of its methods.                          *)
(***************************************************************************)
\* What the state factory of the table builds.
FromFactory == [value |-> "from factory"]

Payloads == {[value |-> v] : v \in Values}

Statuses == {NONE, IN_PROGRESS, DONE, ERROR, NOT_FOUND}

notTableVars ==
    <<minuend, subtrahend, difference, segments, entities, mutableCopyBatches, stateById,
      listenersById, timeouts, fetching, settled, calls, evictions, fetched, errorListeners,
      invalidatedBy, listenersByQuery, loads, fetchingByQuery, started, provided, idle, queryEvicted>>

\* RequestStates.get that stores the info it builds for an unknown key.
tableAfterStoringGet(requestStates, id, stateFactory) ==
    update(requestStates, get(requestStates, id, stateFactory))

\* The table after RequestStates.get (and so after getState and isStatus):
\* the info built for an unknown key is returned and not stored.
tableAfterGet(requestStates, id, stateFactory) == requestStates

SetStatusOfKey ==
    \E id \in SearchQueries, status \in Statuses, error \in {NoError, Error("failed")} :
        /\ stateByQuery' = setStatus(stateByQuery, id, status, error, FromFactory)
        /\ event' = Event("setStatus", id, "returned", Undefined)
        /\ UNCHANGED notTableVars

SetStateOfKey ==
    \E id \in SearchQueries, state \in Payloads :
        /\ stateByQuery' = setState(stateByQuery, id, state, FromFactory)
        /\ event' = Event("setState", id, "returned", Undefined)
        /\ UNCHANGED notTableVars

DeleteKey ==
    \E id \in SearchQueries :
        /\ stateByQuery' = delete(stateByQuery, id)
        /\ event' = Event("delete", id, "returned", Undefined)
        /\ UNCHANGED notTableVars

ResetTable ==
    /\ stateByQuery' = EmptyMap
    /\ event' = Event("reset", 0, "returned", Undefined)
    /\ UNCHANGED notTableVars

GetOfKey ==
    \E id \in SearchQueries :
        /\ stateByQuery' = tableAfterGet(stateByQuery, id, FromFactory)
        /\ event' = Event("get", id, "returned", get(stateByQuery, id, FromFactory))
        /\ UNCHANGED notTableVars

GetStateOfKey ==
    \E id \in SearchQueries :
        /\ stateByQuery' = tableAfterGet(stateByQuery, id, FromFactory)
        /\ event' = Event("getState", id, "returned", getState(stateByQuery, id, FromFactory))
        /\ UNCHANGED notTableVars

IsStatusOfKey ==
    \E id \in SearchQueries, status \in Statuses :
        /\ stateByQuery' = tableAfterGet(stateByQuery, id, FromFactory)
        /\ event' = Event("isStatus", id, "returned",
                          [status |-> status,
                           is |-> isStatus(stateByQuery, id, {status}, FromFactory)])
        /\ UNCHANGED notTableVars

\* forEach: the callback is called with each info of the table.
ForEachOfTable ==
    /\ event' = Event("forEach", 0, "returned",
                      {stateByQuery[key] : key \in DOMAIN stateByQuery})
    /\ UNCHANGED stateByQuery
    /\ UNCHANGED notTableVars

InitStates == InitSearch

NextStates ==
    \/ SetStatusOfKey
    \/ SetStateOfKey
    \/ DeleteKey
    \/ ResetTable
    \/ GetOfKey
    \/ GetStateOfKey
    \/ IsStatusOfKey
    \/ ForEachOfTable

SpecStates == InitStates /\ [][NextStates]_vars

\* C26: get, getState and isStatus of a key without record report the status
\* NONE and the state the factory builds, and no read adds a record: the
\* table is as before, and forEach visits the records of the table only.
ReadingAddsNoRecord ==
    [][/\ \A id \in SearchQueries :
             (event'.op \in {"get", "getState", "isStatus"} /\ event'.id = id) =>
                /\ stateByQuery' = stateByQuery
                /\ ~MapHas(stateByQuery, id) =>
                      /\ event'.op = "get" =>
                            event'.result = [id |-> id, status |-> NONE, state |-> FromFactory]
                      /\ event'.op = "getState" => event'.result = FromFactory
                      /\ event'.op = "isStatus" =>
                            (event'.result.is <=> event'.result.status = NONE)
       /\ event'.op = "forEach" =>
             /\ stateByQuery' = stateByQuery
             /\ \A info \in event'.result : MapHas(stateByQuery, info.id)
             /\ \A id \in SearchQueries :
                   MapHas(stateByQuery, id) => stateByQuery[id] \in event'.result]_vars

\* C26 witness: getState has just read a key without record, which the table
\* still has not, while the table holds a record of another key.
UnknownKeyRead ==
    /\ event.op = "getState"
    /\ ~MapHas(stateByQuery, event.id)
    /\ event.result = FromFactory
    /\ stateByQuery # EmptyMap


(***************************************************************************)
(* Claims about mutable copies                                             *)
(***************************************************************************)
HasCopy(batchId, id) == MapHas(batchById(batchId), id)

CopyOf(batchId, id) == MapGet(batchById(batchId), id)

\* Another object than the entity with the id and the value of the entity.
FreshCloneOf(copy, entity) ==
    /\ copy # Undefined
    /\ copy # entity
    /\ copy.id = entity.id
    /\ copy.value = entity.value

ChangesCopy(batchId, id) ==
    \/ event' = CopyEvent("setMutableCopy", batchId, id, "returned", Undefined)
    \/ event' = CopyEvent("discardMutableCopy", batchId, id, "returned", Undefined)

LoadedIds(states, query) ==
    UNION {Range(RangeOf(states, query)[i].ids) : i \in DOMAIN RangeOf(states, query)}

\* The listeners of a query, in the order of listenersByQuery.
ListenersFor(listeners, query) ==
    SelectSeq(listeners, LAMBDA listenerSpec : listenerSpec.query = query)

\* The settlements of the listeners of a query that a step adds.
SettlesListenerOf(query) ==
    {s \in BagToSet(settled') :
        /\ "query" \in DOMAIN s.task
        /\ s.task.query = query
        /\ s.task.kind \in {"waitForQuery", "byQueryAsync"}
        /\ CopiesIn(s, settled') > CopiesIn(s, settled)}

\* C28: evict(id) of an id that is in no loaded segment of the range of a
\* query leaves the state of the query (its range, its limit and its status)
\* and the listeners of the query as they are and settles none of them, also
\* while a load of the query is in progress.
UnrelatedEvictLeavesQuery ==
    [][\A id \in QueryIds, query \in Queries :
          (/\ event' = Event("evict", id, "returned", Undefined)
           /\ id \notin LoadedIds(stateByQuery, query))
             => /\ MapHas(stateByQuery', query) = MapHas(stateByQuery, query)
                /\ get(stateByQuery', query, StatePaginatedSearchable)
                      = get(stateByQuery, query, StatePaginatedSearchable)
                /\ ListenersFor(listenersByQuery', query) = ListenersFor(listenersByQuery, query)
                /\ SettlesListenerOf(query) = {}
                /\ loads' = loads
                /\ fetchingByQuery' = fetchingByQuery]_vars

\* C28 witness: an id has been evicted that is in no loaded segment of a
\* query which has loaded ids, a pending waitForQuery and a load in progress.
UnrelatedIdEvictedWhileLoading ==
    \E id \in QueryIds, query \in Queries :
        /\ event = Event("evict", id, "returned", Undefined)
        /\ MapHas(stateByQuery, query)
        /\ LoadedIds(stateByQuery, query) # {}
        /\ id \notin LoadedIds(stateByQuery, query)
        /\ WaitersOf(listenersByQuery, query) # {}
        /\ \E load \in DOMAIN loads : loads[load].task.query = query


(***************************************************************************)
(* waitForIdle.  The revision of the repository under test has a counter   *)
(* of the loads in flight and waitForIdle(); the tests describe it          *)
(* (test-paginated-searchable-repository.ts 533-618,                        *)
(* test-searchable-repository.ts 356-440).  `idle` holds the counter and    *)
(* the number of the pending waitForIdle promises; `fetching` and           *)
(* `fetchingByQuery` hold the loads whose fetch is pending.                 *)
(***************************************************************************)
IdleTask == [kind |-> "waitForIdle", awaits |-> "idle"]

IdLoad(id) == [load |-> "id", id |-> id]

QueryLoad(query) == [load |-> "query", query |-> query]

\* The loads whose fetch has not settled.
Outstanding == BagCardinality(fetching) + BagCardinality(fetchingByQuery)

\* The promises of waitForIdle that are resolved and whose continuation has
\* not run.
IdleResolved == CopiesIn(Resolved(IdleTask), settled)

\* The counter decremented only when the load succeeded.
loadSettledOnSuccess(counter, outcome) ==
    IF outcome = "resolved" THEN [counter EXCEPT !.inFlight = @ - 1] ELSE counter

\* The counter is decremented on every settlement.
loadSettled(counter, outcome) == [counter EXCEPT !.inFlight = @ - 1]

idleFrame ==
    UNCHANGED <<segmentVars, rangeVars, entities, mutableCopyBatches, stateById, listenersById,
                timeouts, evictions, fetched, errorListeners, invalidatedBy, stateByQuery,
                listenersByQuery, loads, started, provided, queryEvicted>>

\* A load of an id starts: the counter goes up and fetchById is pending.
IdLoadStarts ==
    \E id \in Ids :
        /\ calls < MaxCalls
        /\ Outstanding < MaxPending
        /\ calls' = calls + 1
        /\ fetching' = fetching (+) SetToBag({IdLoad(id)})
        /\ idle' = [idle EXCEPT !.inFlight = @ + 1]
        /\ event' = Event("loadById", id, "called", Undefined)
        /\ UNCHANGED <<fetchingByQuery, settled>>
        /\ idleFrame

\* A load of a query starts: the counter goes up and fetchByQuery is pending.
QueryLoadStarts ==
    \E query \in SearchQueries :
        /\ calls < MaxCalls
        /\ Outstanding < MaxPending
        /\ calls' = calls + 1
        /\ fetchingByQuery' = fetchingByQuery (+) SetToBag({QueryLoad(query)})
        /\ idle' = [idle EXCEPT !.inFlight = @ + 1]
        /\ event' = Event("loadByQuery", query, "called", Undefined)
        /\ UNCHANGED <<fetching, settled>>
        /\ idleFrame

\* What the settlement of a load does to the counter and to the promises of
\* waitForIdle: they are resolved once the counter is back at zero.
IdleAfter(counter) ==
    IF counter.inFlight = 0
    THEN /\ idle' = [counter EXCEPT !.listeners = 0]
         /\ settled' = settled (+) [s \in {r \in {Resolved(IdleTask)} : counter.listeners > 0}
                                      |-> counter.listeners]
    ELSE /\ idle' = counter
         /\ settled' = settled

\* fetchById of a load settles, with an entity or with an error.
IdLoadSettles ==
    \E f \in BagToSet(fetching), outcome \in {"resolved", "rejected"} :
        /\ fetching' = fetching (-) SetToBag({f})
        /\ IdleAfter(loadSettled(idle, outcome))
        /\ event' = Event("fetchById", f.id, outcome, Undefined)
        /\ UNCHANGED <<fetchingByQuery, calls>>
        /\ idleFrame

\* fetchByQuery of a load settles, with entities or with an error.
QueryLoadSettles ==
    \E f \in BagToSet(fetchingByQuery), outcome \in {"resolved", "rejected"} :
        /\ fetchingByQuery' = fetchingByQuery (-) SetToBag({f})
        /\ IdleAfter(loadSettled(idle, outcome))
        /\ event' = Event("fetchByQuery", f.query, outcome, Undefined)
        /\ UNCHANGED <<fetching, calls>>
        /\ idleFrame

\* waitForIdle(): resolved at once when the counter is at zero, pending
\* otherwise.
WaitForIdle ==
    /\ calls < MaxCalls
    /\ idle.listeners + IdleResolved < MaxWaiters
    /\ calls' = calls + 1
    /\ IF idle.inFlight = 0
       THEN /\ settled' = settled (+) SetToBag({Resolved(IdleTask)})
            /\ idle' = idle
       ELSE /\ settled' = settled
            /\ idle' = [idle EXCEPT !.listeners = @ + 1]
    /\ event' = Event("waitForIdle", 0, "called", Undefined)
    /\ UNCHANGED <<fetching, fetchingByQuery>>
    /\ idleFrame

\* The continuation of a caller of waitForIdle runs.
WaitForIdleSettles ==
    \E s \in BagToSet(settled) :
        /\ settled' = settled (-) SetToBag({s})
        /\ event' = Event("waitForIdle", 0, s.outcome, Undefined)
        /\ UNCHANGED <<fetching, fetchingByQuery, calls, idle>>
        /\ idleFrame

InitIdle == InitSearch

NextIdle ==
    \/ IdLoadStarts
    \/ QueryLoadStarts
    \/ IdLoadSettles
    \/ QueryLoadSettles
    \/ WaitForIdle
    \/ WaitForIdleSettles

SpecIdle == InitIdle /\ [][NextIdle]_vars

CallsWaitForIdle == event' = Event("waitForIdle", 0, "called", Undefined)

\* C29: waitForIdle() called while no load is outstanding is resolved at
\* once; called while a load is outstanding it is pending; no promise of
\* waitForIdle is resolved in a step that leaves a load outstanding; in the
\* step in which the last outstanding load settles, with a result or with an
\* error, every pending promise is resolved; and none is ever rejected.
WaitForIdleFollowsLoads ==
    [][/\ (CallsWaitForIdle /\ Outstanding = 0) =>
             (IdleResolved' = IdleResolved + 1 /\ idle'.listeners = idle.listeners)
       /\ (CallsWaitForIdle /\ Outstanding > 0) =>
             (IdleResolved' = IdleResolved /\ idle'.listeners = idle.listeners + 1)
       /\ Outstanding' > 0 =>
             (IdleResolved' <= IdleResolved /\ idle'.listeners >= idle.listeners)
       /\ (Outstanding > 0 /\ Outstanding' = 0) =>
             (IdleResolved' = IdleResolved + idle.listeners /\ idle'.listeners = 0)
       /\ \A s \in BagToSet(settled') : s.outcome = "resolved"]_vars

\* C29 witness: the last outstanding load has failed, and the promises of
\* waitForIdle that were pending are resolved.
ResolvedAfterFailedLoad ==
    /\ event.op \in {"fetchById", "fetchByQuery"}
    /\ event.outcome = "rejected"
    /\ Outstanding = 0
    /\ idle.listeners = 0
    /\ IdleResolved > 0


(***************************************************************************)
(* Claims about fetches that outlive evict and reset                        *)
(***************************************************************************)
\* A fetchById(id) that was pending when evict(id) or reset() ran resolves
\* with the entity of the id, no loadById(id) and no add of the id having
\* followed the evict or reset.
LateFetchResolves(id) ==
    /\ invalidatedBy[id] # "none"
    /\ event'.op = "fetchById"
    /\ event'.id = id
    /\ event'.outcome = "resolved"
    /\ event'.result # Undefined
    /\ extractId(event'.result) = id
    /\ \E f \in SettlingFetches(id) : f.superseded

StatusOfId(states, id) == get(states, id, NoState).status

\* A change of status the state machine of an id allows in the step.
AllowedStatusChange(from, to) ==
    \/ to = IN_PROGRESS /\ (from = NONE \/ event'.op = "reloadId")
    \/ to \in {DONE, NOT_FOUND, ERROR} /\ from = IN_PROGRESS
    \/ to = NONE /\ event'.op \in {"evict", "reset"}

\* C31: the status of an id changes only from NONE to IN_PROGRESS (or to
\* IN_PROGRESS through reloadId), from IN_PROGRESS to DONE, NOT_FOUND or
\* ERROR, and back to NONE through evict or reset.
StatusFollowsStateMachine ==
    [][\A id \in Ids :
          StatusOfId(stateById', id) # StatusOfId(stateById, id) =>
             AllowedStatusChange(StatusOfId(stateById, id), StatusOfId(stateById', id))]_vars


(***************************************************************************)
(* Claims about the waiters of an id                                       *)
(***************************************************************************)
\* The waitForId calls registered for the id, in registration order.
WaitersOfId(id) == SelectSeq(ListenersOf(id), LAMBDA task : task.kind = "waitForId")

\* The settlements of waitForId(id) promises that the step adds.
SettlesWaitersOf(id) ==
    {s \in BagToSet(settled') :
        /\ s.task = Task("waitForId", id)
        /\ CopiesIn(s, settled') > CopiesIn(s, settled)}

\* Every waiter of the id is settled once by the step, all of them the same
\* way, and none is left registered.
WaitersSettledOnce(id) ==
    /\ ~MapHas(listenersById', id)
    /\ \E s \in SettlesWaitersOf(id) :
          /\ SettlesWaitersOf(id) = {s}
          /\ CopiesIn(s, settled') = CopiesIn(s, settled) + Len(WaitersOfId(id))

\* C32: when the fetch of an id settles, every waiter registered for the id is
\* settled exactly once, all resolved or all rejected, and removed.
FetchSettlesEveryWaiter ==
    [][\A id \in Ids :
          (event'.op = "fetchById" /\ event'.id = id /\ WaitersOfId(id) # <<>>)
             => WaitersSettledOnce(id)]_vars


(***************************************************************************)
(* SpecCombine: SegmentWithIds.combine applied to two fetched segments.    *)
(* `minuend` holds `this`, `subtrahend` the argument and `difference` what *)
(* combine returned.                                                       *)
(***************************************************************************)
InitCombine ==
    /\ minuend \in FetchedSegments
    /\ subtrahend \in FetchedSegments
    /\ difference = NotComputed
    /\ InitRangeIdle
    /\ InitIndexIdle
    /\ InitPagedIdle

Combine ==
    /\ difference = NotComputed
    /\ difference' = combine(minuend, subtrahend)
    /\ UNCHANGED <<minuend, subtrahend, rangeVars, indexVars, pagedVars>>

NextCombine == Combine

SpecCombine == InitCombine /\ [][NextCombine]_vars

\* The two segments overlap or are adjacent.
Touching(x, y) == x.offset <= End(y) /\ y.offset <= End(x)

LowerOffset(x, y) == IF x.offset <= y.offset THEN x.offset ELSE y.offset

UpperEnd(x, y) == IF End(x) >= End(y) THEN End(x) ELSE End(y)

UnionOfIds(x, y) == Range(x.ids) \cup Range(y.ids)

\* C33: combine of two overlapping or adjacent segments returns the segment
\* at the lower offset with the union of the ids when the union has as many
\* ids as the merged span has positions, and fails otherwise, also when both
\* segments start at the same offset.
CombineMergesOrFails ==
    (difference # NotComputed /\ Touching(minuend, subtrahend)) =>
        IF Cardinality(UnionOfIds(minuend, subtrahend))
              = UpperEnd(minuend, subtrahend) - LowerOffset(minuend, subtrahend)
        THEN /\ ~difference.threw
             /\ difference.value.offset = LowerOffset(minuend, subtrahend)
             /\ Range(difference.value.ids) = UnionOfIds(minuend, subtrahend)
        ELSE difference.threw


(***************************************************************************)
(* Claims about adding a segment twice                                     *)
(***************************************************************************)
\* The range `twice` answers loadedSegments and getIds as the range `once`.
SameRange(once, twice) ==
    /\ loadedSegments(twice) = loadedSegments(once)
    /\ \A pagination \in Segments : getIds(twice, pagination) = getIds(once, pagination)

AddedTwiceAsOnce(once, segment) ==
    ~once.threw => (~add(once.value, segment).threw
                     /\ SameRange(once.value, add(once.value, segment).value))

ResolvesInBounds ==
    /\ event'.op = "byQueryAsync"
    /\ event'.outcome = "resolved"
    /\ ~wasOutOfBounds(stateByQuery', event'.query, completePagination(event'.pagination))

\* C35: when byQueryAsync(query, window) resolves and the window is not out
\* of bounds, the range of the query covers the window and the call returns
\* one entity for each position of the window, whatever evict, reset and
\* reloadQuery did during the load.
ResolvedQueryIsCovered ==
    [][ResolvesInBounds =>
          /\ Covers(stateByQuery', event'.query, completePagination(event'.pagination))
          /\ Len(event'.result.entities) = completePagination(event'.pagination).count
          /\ \A i \in DOMAIN event'.result.entities : event'.result.entities[i] # Undefined]_vars


(***************************************************************************)
(* Claims about the ids of the queries and the cached entities             *)
(***************************************************************************)
\* The ids the record of a query holds: the ids of its loaded segments, or its
\* resulting ids.
PersistedIds(states, query) ==
    IF Paginated THEN LoadedIds(states, query)
    ELSE Range(getState(states, query, StateSearchable).resultingIds)

PersistedIdsCached ==
    \A query \in DOMAIN stateByQuery :
        \A id \in PersistedIds(stateByQuery, query) : MapHas(entities, id)

ReturnsEntities ==
    /\ event.op \in {"byQuery", "byQueryAsync", "reloadQuery"}
    /\ event.outcome \in {"returned", "resolved"}
    /\ "entities" \in DOMAIN event.result

\* C36: every id in the resulting ids or in the loaded range of a query has an
\* entity in the cache, and byQuery and byQueryAsync return no undefined
\* element, whatever loads, evict and reset do.
QueryIdsHaveEntities ==
    /\ PersistedIdsCached
    /\ ReturnsEntities =>
          \A i \in DOMAIN event.result.entities : event.result.entities[i] # Undefined

\* C36 witness: after an evict, a query whose record holds ids has resolved
\* a byQueryAsync with entities.
EntitiesReturnedAfterEvict ==
    /\ evictions = 1
    /\ event.op = "byQueryAsync"
    /\ event.outcome = "resolved"
    /\ event.result.entities # <<>>
    /\ PersistedIds(stateByQuery, event.query) # {}
    /\ \E id \in Ids : invalidatedBy[id] = "evict"


(***************************************************************************)
(* Claims about windows and the limit of a query                           *)
(***************************************************************************)
\* The window begins below the limit of the query and ends beyond it.
Straddles(states, query, pagination) ==
    /\ LimitOf(states, query) # <<>>
    /\ pagination.offset < LimitOf(states, query)[1]
    /\ LimitOf(states, query)[1] < End(pagination)

\* The positions of the window below the limit that are not loaded.
MissingBelowLimit(states, query, pagination) ==
    {position \in Positions(pagination) :
        /\ position < LimitOf(states, query)[1]
        /\ position \notin PositionsOfAll(RangeOf(states, query))}

\* C37: byQueryAsync for a window that straddles the limit of a query whose
\* load is done calls fetchByQuery for every position of the window below
\* the limit that is not loaded.
StraddlingWindowIsFetched ==
    [][(/\ event'.op = "byQueryAsync"
        /\ event'.outcome = "called"
        /\ isStatus(stateByQuery, event'.query, {DONE}, StatePaginatedSearchable)
        /\ Straddles(stateByQuery, event'.query, completePagination(event'.pagination)))
          => \A position \in MissingBelowLimit(stateByQuery, event'.query,
                                                completePagination(event'.pagination)) :
                \E f \in BagToSet(fetchingByQuery') :
                    /\ f.query = event'.query
                    /\ position \in Positions(f.segment)]_vars

\* The record of the query is there before and after the step, which is not
\* the reloadQuery that replaces it.
StateLives(query) ==
    /\ MapHas(stateByQuery, query)
    /\ MapHas(stateByQuery', query)
    /\ event'.op # "reloadQuery"

\* C38: while the record of a query lives, a limit recorded for the query is
\* never replaced by a larger one (nor dropped), whichever fetch settles
\* last.
LimitNeverGrows ==
    [][\A query \in Queries :
          (StateLives(query) /\ LimitOf(stateByQuery, query) # <<>>)
             => /\ LimitOf(stateByQuery', query) # <<>>
                /\ LimitOf(stateByQuery', query)[1] <= LimitOf(stateByQuery, query)[1]]_vars


(***************************************************************************)
(* Claims about the error listeners                                        *)
(***************************************************************************)
\* The step handles a fetchById that threw or that returned an entity of
\* another id.
FetchByIdFailed ==
    /\ event'.op = "fetchById"
    /\ \/ event'.outcome = "rejected"
       \/ /\ event'.result # Undefined
          /\ extractId(event'.result) # event'.id

\* C39: a fetchById that throws or that returns an entity of another id has
\* every error listener registered at that moment called exactly once, and no
\* other listener is called.
EveryListenerCalledOnce ==
    [][FetchByIdFailed =>
          /\ DOMAIN event'.reported = errorListeners
          /\ \A listener \in errorListeners : Len(event'.reported[listener]) = 1]_vars


(***************************************************************************)
(* Claims about stored mutable copies                                      *)
(***************************************************************************)
\* The batch holds for the id an entity that setMutableCopy stored (the
\* copies mutableCopyById makes are clones).
HoldsStoredCopy(batchId, id) ==
    /\ HasCopy(batchId, id)
    /\ CopyOf(batchId, id) # Undefined
    /\ "clone" \notin DOMAIN CopyOf(batchId, id)

\* C40: a mutable copy stored with setMutableCopy is replaced or removed only
\* by setMutableCopy, discardMutableCopy or reset, never by the clone that an
\* earlier mutableCopyById of the id scheduled.
StoredCopyStays ==
    [][\A batchId \in BatchIds, id \in Ids :
          (/\ HoldsStoredCopy(batchId, id)
           /\ \/ ~HasCopy(batchId, id)'
              \/ CopyOf(batchId, id)' # CopyOf(batchId, id))
             => event'.op \in {"setMutableCopy", "discardMutableCopy", "reset"}]_vars

====
